---- MODULE Spec2Model ----
(***************************************************************************)
(* Book review platform (Express + Mongoose back end).                     *)
(*                                                                         *)
(* The store holds three collections (users, books, reviews).  A request   *)
(* is served by a chain of middleware and one async handler; every `await` *)
(* on the store is one atomic step, and the steps of concurrently served   *)
(* requests interleave.  pc[p] is the position of the request served in    *)
(* slot p, req[p] its inputs and handler-local variables, resp[p] the      *)
(* response it was answered with.                                          *)
(*                                                                         *)
(* Ids are positions: book b is books[b], review r is reviews[r]; records  *)
(* are never removed, so the position is also the creation order.          *)
(* averageRating is kept in tenths (42 stands for 4.2).                    *)
(***************************************************************************)
EXTENDS Integers, Sequences, FiniteSets, TLC

\* ---------------------------------------------------------------- bounds
NumUsers == 2
NumProcs == 2
MaxBooks == 2
MaxReviews == 2
MaxVersion == 3
MaxPage == 2
MaxLimit == 2
MaxSignups == 2
ShelfSize == 8
MaxStamps == 4
BoardSize == 3
MaxMembers == 3

\* ------------------------------------------------------- program constants
MinRating == 1
MaxRating == 5
SimilarLimit == 6

VARIABLES users, books, reviews, pc, req, resp, ackedDeletes, reviewStore

vars == <<users, books, reviews, pc, req, resp, ackedDeletes, reviewStore>>
store == <<users, books, reviews>>

Procs == 1..NumProcs
ActiveUsers == 1..NumUsers
\* one stored user whose isActive flag is false, and one id no user has
InactiveUser == NumUsers + 1
MissingUser == NumUsers + 2

BookIds == 1..Len(books)
ReviewIds == 1..Len(reviews)

\* ids a request may name: every id that can exist, so that some are missing
BookIdInputs == 1..MaxBooks
ReviewIdInputs == 1..MaxReviews

\* -------------------------------------------------------------- requests
\* Authorization header of a request, after jwt decoding: kind says what
\* jwt.verify makes of the token, id is the payload's user id.
Credentials ==
    {[kind |-> "absent", id |-> 0], [kind |-> "malformed", id |-> 0],
     [kind |-> "expired", id |-> 1]}
    \cup {[kind |-> "valid", id |-> u] : u \in ActiveUsers \cup {InactiveUser, MissingUser}}

EmptyBody == [f \in {} |-> 0]
NoSnap == [rating |-> 0, reviewText |-> "", title |-> "", likes |-> <<>>, v |-> 0]
NoCred == [kind |-> "absent", id |-> 0]
\* a response: its status and the code that sent it
NoResp == [status |-> "none", from |-> "none"]
NoReq == [op |-> "none", cred |-> NoCred, user |-> 0, bookId |-> 0, reviewId |-> 0,
          rating |-> 0, reviewText |-> "", body |-> EmptyBody, snap |-> NoSnap]

Request(op, bookId, reviewId, rating, reviewText, body) ==
    [NoReq EXCEPT !.op = op, !.bookId = bookId, !.reviewId = reviewId,
                  !.rating = rating, !.reviewText = reviewText, !.body = body]

HandlerPcs == {"createBook_save",
               "createReview_findBook", "createReview_findExisting", "createReview_save",
               "deleteReview_find", "deleteReview_save",
               "updateReview_find", "updateReview_save",
               "updateBook_find", "updateBook_update",
               "deleteBook_find", "deleteBook_save", "deleteBook_cascade",
               "toggleLike_find", "toggleLike_save",
               "listBooks_find", "listBooks_count", "listBooks_genres", "getBook_find",
               "updateProfile_find", "updateProfile_save",
               "similarBooks_findById", "similarBooks_find",
               "listReviewsForBook_find", "listReviewsForBook_count",
               "listReviewsForBook_aggregate", "reviewsByUser_find", "reviewsByUser_count",
               "leaderboard_aggregate", "searchUsers_find",
               "seed_count", "seed_adminUser", "seed_demoUsers", "seed_books",
               "seed_reviewFind", "seed_reviewSave"}

\* --------------------------------------------------------------- users
\* An email is a sequence of characters.  String.prototype.toLowerCase, on
\* the characters the model uses:
ToLowerChar(c) ==
    CASE c = "A" -> "a"
      [] c = "Z" -> "z"
      [] OTHER -> c

ToLowerCase(str) == [i \in DOMAIN str |-> ToLowerChar(str[i])]

\* a password as typed, and bcrypt.hash(password, salt) of it
Plain(text) == [plain |-> text]

bcryptHash(password) == [bcrypt |-> password.plain]

\* the users stored before the first request: user u has the email made of
\* the u-th letter; the user after the active ones has isActive false
SeedLetters == <<"a", "b", "c", "d", "e">>

SeedUser(u) ==
    [name |-> "Reader", email |-> <<SeedLetters[u]>>, password |-> bcryptHash(Plain("secret")),
     bio |-> "", avatar |-> "", favoriteGenres |-> {}, isActive |-> u \in ActiveUsers]

\* ---------------------------------------------------- client review store
\* useReviewStore: the list of review ids shown, the statistics shown with
\* it, and (call) the action that is running with its arguments
NoCall == [action |-> "none", bookId |-> 0, id |-> 0, rating |-> 0]

\* const initialRatingDistribution = { 1: 0, 2: 0, 3: 0, 4: 0, 5: 0 }
initialRatingDistribution == [n \in MinRating..MaxRating |-> 0]

initialState ==
    [reviews |-> <<>>, ratingDistribution |-> initialRatingDistribution,
     averageRating |-> 0, totalReviews |-> 0, isLoading |-> FALSE, error |-> FALSE,
     call |-> NoCall]

\* ------------------------------------------------------------------ Init
Init ==
    /\ users = [u \in ActiveUsers \cup {InactiveUser} |-> SeedUser(u)]
    /\ books = <<>>
    /\ reviews = <<>>
    /\ pc = [p \in Procs |-> "idle"]
    /\ req = [p \in Procs |-> NoReq]
    /\ resp = [p \in Procs |-> NoResp]
    /\ ackedDeletes = {}
    /\ reviewStore = initialState

\* seedDatabase has run: a book added by user 1 and a review of it by user 2
InitSeeded ==
    /\ users = [u \in ActiveUsers \cup {InactiveUser} |-> SeedUser(u)]
    /\ books = <<[title |-> "Dune", author |-> "Herbert", genre |-> "Sci-Fi",
                  publishedYear |-> 1965, tags |-> {"space"}, addedBy |-> 1,
                  isActive |-> TRUE]>>
    /\ reviews = <<[bookId |-> 1, userId |-> 2, rating |-> 5, reviewText |-> "a good read",
                    title |-> "", likes |-> <<>>, isActive |-> TRUE, editedAt |-> 1,
                    v |-> 0]>>
    /\ pc = [p \in Procs |-> "idle"]
    /\ req = [p \in Procs |-> NoReq]
    /\ resp = [p \in Procs |-> NoResp]
    /\ ackedDeletes = {}
    /\ reviewStore = initialState

\* ------------------------------------------------------- auth middleware
\* jwt.verify: throws JsonWebTokenError on a malformed token and
\* TokenExpiredError on an expired one, otherwise yields the payload.
JwtVerify(cred) ==
    CASE cred.kind = "malformed" -> "JsonWebTokenError"
      [] cred.kind = "expired" -> "TokenExpiredError"
      [] OTHER -> "ok"

\* auth without the isActive test
authNoActiveCheck(cred) ==
    IF cred.kind = "absent" THEN 0
    ELSE IF JwtVerify(cred) # "ok" THEN 0
    ELSE IF cred.id \notin DOMAIN users THEN 0
    ELSE cred.id

\* auth(req, res, next): the user id put in req.user, or 0 when the request
\* is answered 401 and next() is not called.
auth(cred) ==
    IF cred.kind = "absent" THEN 0
    ELSE IF JwtVerify(cred) # "ok" THEN 0
    ELSE IF cred.id \notin DOMAIN users \/ ~users[cred.id].isActive THEN 0
    ELSE cred.id

\* A request arrives in slot p on a route guarded by auth: either it is
\* answered 401 at once or the handler starts at pc `first`.
Arrive(p, cred, r, first) ==
    /\ pc[p] \in {"idle", "done"}
    /\ LET u == auth(cred) IN
        IF u = 0
          THEN /\ pc' = [pc EXCEPT ![p] = "done"]
               /\ resp' = [resp EXCEPT ![p] = [status |-> "Unauthorized", from |-> "auth"]]
               /\ req' = [req EXCEPT ![p] = [NoReq EXCEPT !.op = r.op, !.cred = cred]]
          ELSE /\ pc' = [pc EXCEPT ![p] = first]
               /\ resp' = [resp EXCEPT ![p] = NoResp]
               /\ req' = [req EXCEPT ![p] = [r EXCEPT !.cred = cred, !.user = u]]
    /\ UNCHANGED <<users, books, reviews, ackedDeletes, reviewStore>>

\* the handler in slot p answers and ends; its local variables are gone
Respond(p, status) ==
    /\ pc' = [pc EXCEPT ![p] = "done"]
    /\ resp' = [resp EXCEPT ![p] = [status |-> status, from |-> "handler"]]
    /\ req' = [req EXCEPT ![p] = [NoReq EXCEPT !.op = req[p].op]]
    /\ UNCHANGED reviewStore

\* the same, with the data of the answer
RespondWith(p, status, data) ==
    /\ pc' = [pc EXCEPT ![p] = "done"]
    /\ resp' = [resp EXCEPT ![p] = [status |-> status, from |-> "handler", data |-> data]]
    /\ req' = [req EXCEPT ![p] = [NoReq EXCEPT !.op = req[p].op]]
    /\ UNCHANGED reviewStore

\* the handler goes on to its next await
Goto(p, next) ==
    /\ pc' = [pc EXCEPT ![p] = next]
    /\ UNCHANGED <<resp, req, reviewStore>>

\* the same, keeping the document it has just loaded
GotoLoaded(p, next, loaded) ==
    /\ pc' = [pc EXCEPT ![p] = next]
    /\ req' = [req EXCEPT ![p].snap = loaded]
    /\ UNCHANGED <<resp, reviewStore>>

InFlight(op) == Cardinality({p \in Procs : pc[p] \in HandlerPcs /\ req[p].op = op})

\* ------------------------------------------------------ error middleware
\* errorHandler(err, req, res, next): a duplicate-key error of the reviews'
\* unique index is answered as DuplicateReview, a mongoose VersionError or
\* any other storage failure as an opaque server error.
errorHandler(err) ==
    CASE err = "E11000" -> "DuplicateReview"
      [] err = "E11000 email" -> "DuplicateEmail"
      [] OTHER -> "ServerError"

\* asyncHandler: an exception thrown by the handler goes to errorHandler
Throw(p, err) ==
    /\ pc' = [pc EXCEPT ![p] = "done"]
    /\ resp' = [resp EXCEPT ![p] = [status |-> errorHandler(err), from |-> "errorHandler"]]
    /\ req' = [req EXCEPT ![p] = [NoReq EXCEPT !.op = req[p].op]]
    /\ UNCHANGED reviewStore

\* ----------------------------------------------------------- collections
\* Book documents: the fields of bookSchema that the operations read.
NewBookDefaults(u) ==
    [title |-> "", author |-> "", genre |-> "", publishedYear |-> 0, tags |-> {},
     addedBy |-> u, isActive |-> TRUE]

\* Mongoose applies the schema paths present in an update or constructor
\* object and leaves the others alone.
ApplyBody(doc, body) ==
    [f \in DOMAIN doc |-> IF f \in DOMAIN body THEN body[f] ELSE doc[f]]

\* new Book({...req.body, addedBy: req.user._id})
NewBook(body, u) == [ApplyBody(NewBookDefaults(u), body) EXCEPT !.addedBy = u]

\* new Review({bookId, userId, rating, reviewText, title}): a title of ""
\* stands for no title, an editedAt of 0 for no editedAt
NewReview(b, u, rating, text) ==
    [bookId |-> b, userId |-> u, rating |-> rating, reviewText |-> text, title |-> "",
     likes |-> <<>>, isActive |-> TRUE, editedAt |-> 0, v |-> 0]

\* new Date() when the document's editedAt is prev: a later date; dates are
\* counted per review, the n-th date a review is stamped with is n
newDate(prev) == prev + 1

\* a hook that stamps whenever a document is saved
stampOnEverySave(modified, doc) == [editedAt |-> newDate(doc.editedAt)]

\* reviewSchema.pre('save'): the paths the hook sets, given the paths that
\* isModified() reports for the document being saved
reviewPreSave(modified, doc) ==
    IF "reviewText" \in modified \/ "rating" \in modified
      THEN [editedAt |-> newDate(doc.editedAt)]
      ELSE EmptyBody

\* the paths isModified() reports for a document made by new Review({...}):
\* every path the constructor was given
NewReviewPaths == {"bookId", "userId", "rating", "reviewText"}

\* review.save() of a loaded document: the modified paths and the paths set
\* by the pre('save') hook are written to the stored document
saveReview(stored, changes) ==
    ApplyBody(stored, changes @@ reviewPreSave(DOMAIN changes, stored))

\* Book.findOne({_id: b, isActive: true})
FindActiveBook(b) == b \in BookIds /\ books[b].isActive

\* Review.findOne({_id: r, isActive: true})
FindActiveReview(r) == r \in ReviewIds /\ reviews[r].isActive

\* Review.findOne({bookId, userId, isActive: true})
ExistingReview(b, u) ==
    \E r \in ReviewIds : reviews[r].bookId = b /\ reviews[r].userId = u /\ reviews[r].isActive

\* a reviews collection without the unique index
NoUniqueIndex(b, u) == FALSE

\* reviewSchema.index({bookId: 1, userId: 1}, {unique: true}): an insert of
\* (b, u) is refused when any stored review, active or not, has that pair.
UniqueIndexViolated(b, u) ==
    \E r \in ReviewIds : reviews[r].bookId = b /\ reviews[r].userId = u

\* ---------------------------------------------------------- POST /books
StartCreateBook(p, creds, bodies) ==
    \E cred \in creds, body \in bodies :
        /\ Len(books) + InFlight("createBook") < MaxBooks
        /\ Arrive(p, cred, Request("createBook", 0, 0, 0, "", body), "createBook_save")

\* const book = new Book(bookData); await book.save()
CreateBook_save(p) ==
    /\ pc[p] = "createBook_save"
    /\ books' = Append(books, NewBook(req[p].body, req[p].user))
    /\ Respond(p, "Created")
    /\ UNCHANGED <<users, reviews, ackedDeletes>>

\* ------------------------------------------------------- PUT /books/:id
StartUpdateBook(p, creds, bodies) ==
    \E cred \in creds, b \in BookIdInputs, body \in bodies :
        Arrive(p, cred, Request("updateBook", b, 0, 0, "", body), "updateBook_find")

UpdateBook_find(p) ==
    /\ pc[p] = "updateBook_find"
    /\ IF ~FindActiveBook(req[p].bookId) THEN Respond(p, "BookNotFound")
       ELSE IF books[req[p].bookId].addedBy # req[p].user THEN Respond(p, "Forbidden")
       ELSE Goto(p, "updateBook_update")
    /\ UNCHANGED <<users, books, reviews, ackedDeletes>>

\* Book.findByIdAndUpdate(req.params.id, req.body, {new: true, runValidators: true})
UpdateBook_update(p) ==
    /\ pc[p] = "updateBook_update"
    /\ books' = [books EXCEPT ![req[p].bookId] = ApplyBody(@, req[p].body)]
    /\ Respond(p, "Ok")
    /\ UNCHANGED <<users, reviews, ackedDeletes>>

\* ---------------------------------------------------- DELETE /books/:id
StartDeleteBook(p, creds) ==
    \E cred \in creds, b \in BookIdInputs :
        Arrive(p, cred, Request("deleteBook", b, 0, 0, "", EmptyBody), "deleteBook_find")

DeleteBook_find(p) ==
    /\ pc[p] = "deleteBook_find"
    /\ IF ~FindActiveBook(req[p].bookId) THEN Respond(p, "BookNotFound")
       ELSE IF books[req[p].bookId].addedBy # req[p].user THEN Respond(p, "Forbidden")
       ELSE Goto(p, "deleteBook_save")
    /\ UNCHANGED <<users, books, reviews, ackedDeletes>>

\* book.isActive = false; await book.save()
DeleteBook_save(p) ==
    /\ pc[p] = "deleteBook_save"
    /\ books' = [books EXCEPT ![req[p].bookId].isActive = FALSE]
    /\ Goto(p, "deleteBook_cascade")
    /\ UNCHANGED <<users, reviews, ackedDeletes>>

\* a cascade that removes the reviews of book b
deleteManyReviews(b) == SelectSeq(reviews, LAMBDA review : review.bookId # b)

\* Review.updateMany({bookId: b}, {isActive: false})
updateManyInactive(b) ==
    [r \in ReviewIds |->
        IF reviews[r].bookId = b THEN [reviews[r] EXCEPT !.isActive = FALSE] ELSE reviews[r]]

\* the updateMany, then the success response; ackedDeletes logs the books
\* whose deletion was acknowledged
DeleteBook_cascade(p) ==
    /\ pc[p] = "deleteBook_cascade"
    /\ reviews' = updateManyInactive(req[p].bookId)
    /\ ackedDeletes' = ackedDeletes \cup {req[p].bookId}
    /\ Respond(p, "Ok")
    /\ UNCHANGED <<users, books>>

\* --------------------------------------------------------- POST /reviews
StartCreateReview(p, creds, ratings, texts) ==
    \E cred \in creds, b \in BookIdInputs, rating \in ratings, text \in texts :
        /\ Len(reviews) + InFlight("createReview") < MaxReviews
        /\ Arrive(p, cred, Request("createReview", b, 0, rating, text, EmptyBody),
                  "createReview_findBook")

CreateReview_findBook(p) ==
    /\ pc[p] = "createReview_findBook"
    /\ IF FindActiveBook(req[p].bookId) THEN Goto(p, "createReview_findExisting")
       ELSE Respond(p, "BookNotFound")
    /\ UNCHANGED <<users, books, reviews, ackedDeletes>>

CreateReview_findExisting(p) ==
    /\ pc[p] = "createReview_findExisting"
    /\ IF ExistingReview(req[p].bookId, req[p].user) THEN Respond(p, "DuplicateReview")
       ELSE Goto(p, "createReview_save")
    /\ UNCHANGED <<users, books, reviews, ackedDeletes>>

\* await review.save(): the insert, or the duplicate-key error of the index
CreateReview_save(p) ==
    /\ pc[p] = "createReview_save"
    /\ IF UniqueIndexViolated(req[p].bookId, req[p].user)
         THEN Throw(p, "E11000") /\ reviews' = reviews
         ELSE /\ LET review == NewReview(req[p].bookId, req[p].user,
                                           req[p].rating, req[p].reviewText)
                 IN reviews' = Append(reviews,
                                      ApplyBody(review, reviewPreSave(NewReviewPaths, review)))
              /\ RespondWith(p, "Created", [review |-> Len(reviews) + 1])
    /\ UNCHANGED <<users, books, ackedDeletes>>

\* ------------------------------------------------------ PUT /reviews/:id
\* req.body is {rating, reviewText} and, in titled, the title if it has one
StartUpdateReview(p, creds, ratings, texts, titled) ==
    \E cred \in creds, r \in ReviewIdInputs, rating \in ratings, text \in texts,
       body \in titled :
        /\ \A x \in ReviewIds : reviews[x].editedAt + InFlight("updateReview") < MaxStamps
        /\ Arrive(p, cred, Request("updateReview", 0, r, rating, text, body),
                  "updateReview_find")

\* the document loaded by findOne is kept by the handler until save()
UpdateReview_find(p) ==
    /\ pc[p] = "updateReview_find"
    /\ IF ~FindActiveReview(req[p].reviewId) THEN Respond(p, "ReviewNotFound")
       ELSE IF reviews[req[p].reviewId].userId # req[p].user THEN Respond(p, "Forbidden")
       ELSE GotoLoaded(p, "updateReview_save",
                       [NoSnap EXCEPT !.rating = reviews[req[p].reviewId].rating,
                                      !.reviewText = reviews[req[p].reviewId].reviewText,
                                      !.title = reviews[req[p].reviewId].title])
    /\ UNCHANGED <<users, books, reviews, ackedDeletes>>

\* review.rating = rating; review.reviewText = reviewText;
\* if (title !== undefined) review.title = title: the paths assigned, and
\* of those the modified ones, whose value differs from the loaded document
reviewAssignments(r) ==
    [rating |-> r.rating, reviewText |-> r.reviewText]
      @@ [f \in DOMAIN r.body \cap {"title"} |-> r.body[f]]

reviewChanges(r) ==
    LET assigned == reviewAssignments(r)
    IN [f \in {k \in DOMAIN assigned : assigned[k] # r.snap[k]} |-> assigned[f]]

\* await review.save()
UpdateReview_save(p) ==
    /\ pc[p] = "updateReview_save"
    /\ reviews' = [reviews EXCEPT ![req[p].reviewId] = saveReview(@, reviewChanges(req[p]))]
    /\ Respond(p, "Ok")
    /\ UNCHANGED <<users, books, ackedDeletes>>

\* --------------------------------------------------- DELETE /reviews/:id
StartDeleteReview(p, creds) ==
    \E cred \in creds, r \in ReviewIdInputs :
        Arrive(p, cred, Request("deleteReview", 0, r, 0, "", EmptyBody), "deleteReview_find")

DeleteReview_find(p) ==
    /\ pc[p] = "deleteReview_find"
    /\ IF ~FindActiveReview(req[p].reviewId) THEN Respond(p, "ReviewNotFound")
       ELSE IF reviews[req[p].reviewId].userId # req[p].user THEN Respond(p, "Forbidden")
       ELSE Goto(p, "deleteReview_save")
    /\ UNCHANGED <<users, books, reviews, ackedDeletes>>

\* review.isActive = false; await review.save()
DeleteReview_save(p) ==
    /\ pc[p] = "deleteReview_save"
    /\ reviews' = [reviews EXCEPT ![req[p].reviewId] = saveReview(@, [isActive |-> FALSE])]
    /\ Respond(p, "Ok")
    /\ UNCHANGED <<users, books, ackedDeletes>>

\* ------------------------------------------------ POST /reviews/:id/like
\* Array.prototype.indexOf on the loaded likes array (0 stands for -1)
IndexOf(seq, x) ==
    IF \E i \in 1..Len(seq) : seq[i] = x
      THEN CHOOSE i \in 1..Len(seq) : seq[i] = x /\ \A j \in 1..(i - 1) : seq[j] # x
      ELSE 0

\* likes.splice(i, 1)
Splice1(seq, i) == [j \in 1..(Len(seq) - 1) |-> IF j < i THEN seq[j] ELSE seq[j + 1]]

\* a toggle decided on the stored array: add-if-absent, remove-if-present
likesAfterAtomicToggle(loaded, stored, u) ==
    IF IndexOf(stored, u) > 0 THEN Splice1(stored, IndexOf(stored, u)) ELSE Append(stored, u)

\* the likes array that the handler's save leaves in the store: loaded is the
\* array findOne returned, stored the array in the store when save runs
likesAfterToggle(loaded, stored, u) ==
    IF IndexOf(loaded, u) > 0 THEN Splice1(loaded, IndexOf(loaded, u)) ELSE Append(stored, u)

StartToggleLike(p, creds) ==
    \E cred \in creds, r \in ReviewIdInputs :
        /\ \A x \in ReviewIds : reviews[x].v + InFlight("toggleLike") < MaxVersion
        /\ Arrive(p, cred, Request("toggleLike", 0, r, 0, "", EmptyBody), "toggleLike_find")

ToggleLike_find(p) ==
    /\ pc[p] = "toggleLike_find"
    /\ IF ~FindActiveReview(req[p].reviewId) THEN Respond(p, "ReviewNotFound")
       ELSE GotoLoaded(p, "toggleLike_save",
                       [NoSnap EXCEPT !.likes = reviews[req[p].reviewId].likes,
                                      !.v = reviews[req[p].reviewId].v])
    /\ UNCHANGED <<users, books, reviews, ackedDeletes>>

\* likes.splice(likeIndex, 1) or likes.push(userId), then await review.save().
\* Mongoose sends a push as $push with $inc of __v, and a spliced array as
\* $set of the whole array guarded by the loaded __v (VersionError when the
\* stored __v has moved on).
ToggleLike_save(p) ==
    /\ pc[p] = "toggleLike_save"
    /\ LET r == req[p].reviewId
           loaded == req[p].snap
           likeIndex == IndexOf(loaded.likes, req[p].user)
       IN IF likeIndex > 0 /\ reviews[r].v # loaded.v
            THEN Throw(p, "VersionError") /\ reviews' = reviews
            ELSE /\ reviews' = [reviews EXCEPT ![r] =
                                  saveReview(@, [likes |-> likesAfterToggle(loaded.likes, @.likes,
                                                                            req[p].user),
                                                 v |-> @.v + 1])]
                 /\ Respond(p, "Ok")
    /\ UNCHANGED <<users, books, ackedDeletes>>

\* --------------------------------------------------------- read handlers
\* bookSchema.virtual('reviews') as populated by GET /books and GET /books/:id:
\* every review whose bookId is b (the populate carries no match)
PopulatedReviews(b) == {r \in ReviewIds : reviews[r].bookId = b}

RECURSIVE SumRatings(_)
SumRatings(rs) ==
    IF rs = {} THEN 0
    ELSE LET r == CHOOSE x \in rs : TRUE IN reviews[r].rating + SumRatings(rs \ {r})

\* Math.round((sum / n) * 10) / 10, in tenths
RoundTenths(sum, n) == (20 * sum + n) \div (2 * n)

\* bookSchema.virtual('averageRating'), over the populated reviews rs
averageRating(rs) == IF rs = {} THEN 0 ELSE RoundTenths(SumRatings(rs), Cardinality(rs))

\* bookSchema.virtual('reviewCount')
reviewCount(rs) == Cardinality(rs)

\* GET /books/:id for an authenticated caller
getBook(b) ==
    IF FindActiveBook(b)
      THEN [status |-> "Ok", averageRating |-> averageRating(PopulatedReviews(b)),
            reviewCount |-> reviewCount(PopulatedReviews(b))]
      ELSE [status |-> "BookNotFound", averageRating |-> 0, reviewCount |-> 0]

\* GET /books for an authenticated caller, no filter, all pages: the books listed
listBooks == {b \in BookIds : books[b].isActive}

\* GET /reviews/book/:bookId: the reviews of all pages and totalReviews
listReviewsForBook(b) ==
    LET found == {r \in ReviewIds : reviews[r].bookId = b /\ reviews[r].isActive}
    IN [reviews |-> found, totalReviews |-> Cardinality(found)]

\* GET /reviews/user/:userId
reviewsByUser(u) == {r \in ReviewIds : reviews[r].userId = u /\ reviews[r].isActive}

\* GET /reviews/recent
recentReviews == {r \in ReviewIds : reviews[r].isActive}

\* GET /books/:id/similar: Book.findById has no isActive filter on the target
similarBooks(b) ==
    IF b \notin BookIds THEN {}
    ELSE {x \in BookIds : /\ x # b
                          /\ books[x].isActive
                          /\ \/ books[x].genre = books[b].genre
                             \/ books[x].author = books[b].author
                             \/ books[x].tags \cap books[b].tags # {}}

\* GET /users/:id/profile: both populates carry match {isActive: true}
userProfile(u) ==
    IF u \in DOMAIN users /\ users[u].isActive
      THEN [status |-> "Ok",
            books |-> {b \in BookIds : books[b].addedBy = u /\ books[b].isActive},
            reviews |-> {r \in ReviewIds : reviews[r].userId = u /\ reviews[r].isActive}]
      ELSE [status |-> "UserNotFound", books |-> {}, reviews |-> {}]

\* GET /auth/me: the user's books and reviews virtuals, populated without match
authMe(u) ==
    [books |-> {b \in BookIds : books[b].addedBy = u},
     reviews |-> {r \in ReviewIds : reviews[r].userId = u}]

\* ------------------------------------------------- ids as the code holds them
\* A stored or hydrated _id is an ObjectId object; toString() yields its hex
\* string.  hex is the id's number in the model.
ObjectId(n) == [type |-> "ObjectId", hex |-> n]

\* ObjectId.prototype.toString
IdToString(o) == [type |-> "string", hex |-> o.hex]

\* x === y: two strings are compared by value; an object is never === a
\* string, and two distinct ObjectId objects are never === each other
StrictEquals(x, y) == x.type = "string" /\ y.type = "string" /\ x.hex = y.hex

\* ------------------------------------------------------ GET /books/:id data
\* the five counters of ratingDistribution over the reviews rs
ratingDistribution(rs) ==
    [star \in MinRating..MaxRating |-> Cardinality({r \in rs : reviews[r].rating = star})]

\* book.reviews.find(r => r.userId._id.toString() === req.user._id): the
\* populated reviews come newest first, req.user is the document auth loaded;
\* 0 stands for undefined
userReview(b, u) ==
    LET found == {r \in PopulatedReviews(b) :
                     StrictEquals(IdToString(ObjectId(reviews[r].userId)), ObjectId(u))}
    IN IF found = {} THEN 0 ELSE CHOOSE r \in found : \A x \in found : x <= r

\* the data of GET /books/:id for caller u
getBookData(b, u) ==
    IF FindActiveBook(b)
      THEN [status |-> "Ok",
            ratingDistribution |-> ratingDistribution(PopulatedReviews(b)),
            userReview |-> userReview(b, u)]
      ELSE [status |-> "BookNotFound",
            ratingDistribution |-> [star \in MinRating..MaxRating |-> 0],
            userReview |-> 0]

\* statistics of GET /reviews/book/:bookId: Review.aggregate with
\* $match {bookId, isActive: true}
reviewStatistics(b) ==
    LET matched == {r \in ReviewIds : reviews[r].bookId = b /\ reviews[r].isActive}
    IN [averageRating |-> averageRating(matched),
        totalReviews |-> Cardinality(matched),
        ratingDistribution |-> ratingDistribution(matched)]

\* GET /books/:id/similar: the status and the books of the answer
similarBooksAnswer(b) ==
    IF b \in BookIds THEN [status |-> "Ok", books |-> similarBooks(b)]
    ELSE [status |-> "BookNotFound", books |-> {}]

\* ------------------------------------------------------------ GET /books
\* req.query of GET /books: genre "" or "all" and author "" stand for no
\* filter, hasMinRating says whether minRating is given (in tenths), page and
\* limit are the parsed numbers
BookQuery(genre, author, sortBy, sortOrder, hasMinRating, minRating, page, limit) ==
    [genre |-> genre, author |-> author, sortBy |-> sortBy, sortOrder |-> sortOrder,
     hasMinRating |-> hasMinRating, minRating |-> minRating, page |-> page, limit |-> limit]

\* the query object {isActive: true, genre, author}; the author patterns of
\* the model are whole author names
MatchesQuery(b, q) ==
    /\ books[b].isActive
    /\ (q.genre # "" /\ q.genre # "all") => books[b].genre = q.genre
    /\ q.author # "" => books[b].author = q.author

\* .sort({createdAt: dir}): creation order is id order
RECURSIVE ByCreatedAt(_, _)
ByCreatedAt(S, dir) ==
    IF S = {} THEN <<>>
    ELSE LET first == IF dir = -1 THEN CHOOSE x \in S : \A y \in S : y <= x
                                  ELSE CHOOSE x \in S : \A y \in S : x <= y
         IN <<first>> \o ByCreatedAt(S \ {first}, dir)

\* .skip(skip).limit(limit)
SkipLimit(seq, skip, limit) ==
    IF skip >= Len(seq) THEN <<>>
    ELSE SubSeq(seq, skip + 1, IF skip + limit < Len(seq) THEN skip + limit ELSE Len(seq))

\* book.averageRating of a book fetched with its reviews populated
bookAverageRating(b) == averageRating(PopulatedReviews(b))

\* the comparator (a, b) => (b.averageRating - a.averageRating) * order
CompareRating(a, b, sortOrder) ==
    (bookAverageRating(b) - bookAverageRating(a)) * (IF sortOrder = "desc" THEN -1 ELSE 1)

\* Array.prototype.sort with that comparator (a stable sort)
RECURSIVE InsertByRating(_, _, _)
InsertByRating(x, sorted, sortOrder) ==
    IF sorted = <<>> THEN <<x>>
    ELSE IF CompareRating(Head(sorted), x, sortOrder) <= 0
           THEN <<Head(sorted)>> \o InsertByRating(x, Tail(sorted), sortOrder)
           ELSE <<x>> \o sorted

RECURSIVE SortByRating(_, _)
SortByRating(seq, sortOrder) ==
    IF seq = <<>> THEN <<>>
    ELSE InsertByRating(seq[Len(seq)], SortByRating(SubSeq(seq, 1, Len(seq) - 1), sortOrder),
                        sortOrder)

\* the find with the skip of a page counted from 0
findBooksFromPageZero(q) ==
    LET dir == IF q.sortBy = "averageRating" \/ q.sortOrder = "desc" THEN -1 ELSE 1
    IN SkipLimit(ByCreatedAt({b \in BookIds : MatchesQuery(b, q)}, dir), q.page * q.limit, q.limit)

\* Book.find(query).sort(sort).skip(skip).limit(limit)
findBooks(q) ==
    LET dir == IF q.sortBy = "averageRating" \/ q.sortOrder = "desc" THEN -1 ELSE 1
    IN SkipLimit(ByCreatedAt({b \in BookIds : MatchesQuery(b, q)}, dir),
                 (q.page - 1) * q.limit, q.limit)

\* the value a book is sorted by: createdAt is the creation order
SortKey(b, sortBy) == IF sortBy = "createdAt" THEN b ELSE books[b][sortBy]

\* the orders in which the store may return the set S sorted by {[sortBy]: dir}
\* alone: the sort names no second key, and MongoDB returns documents that
\* are equal on the sort key in any order, chosen anew by every query
SortedOrders(S, sortBy, dir) ==
    {ord \in [1..Cardinality(S) -> S] :
        /\ \A i, j \in DOMAIN ord : i # j => ord[i] # ord[j]
        /\ \A i, j \in DOMAIN ord :
              i < j => dir * SortKey(ord[i], sortBy) <= dir * SortKey(ord[j], sortBy)}

\* the pages that Book.find(query).sort(sort).skip(skip).limit(limit) may
\* return: createdAt is the creation order, any other key may have ties
findBooksResults(q) ==
    IF q.sortBy \in {"createdAt", "averageRating"} THEN {findBooks(q)}
    ELSE {SkipLimit(ord, (q.page - 1) * q.limit, q.limit) :
             ord \in SortedOrders({b \in BookIds : MatchesQuery(b, q)}, q.sortBy,
                                  IF q.sortOrder = "desc" THEN -1 ELSE 1)}

\* filteredBooks: the minRating filter and the in-memory sort of the page
filteredBooks(q, page) ==
    LET filtered == IF q.hasMinRating
                      THEN SelectSeq(page, LAMBDA b : bookAverageRating(b) >= q.minRating)
                      ELSE page
    IN IF q.sortBy = "averageRating" THEN SortByRating(filtered, q.sortOrder) ELSE filtered

\* Book.countDocuments(query)
countBooks(q) == Cardinality({b \in BookIds : MatchesQuery(b, q)})

\* Math.ceil(totalBooks / limit)
totalPagesOf(totalBooks, limit) == (totalBooks + limit - 1) \div limit

\* a pagination block whose hasPrevPage counts pages from 0
paginationFromZero(page, limit, total) ==
    [currentPage |-> page,
     totalPages |-> totalPagesOf(total, limit),
     hasNextPage |-> page < totalPagesOf(total, limit),
     hasPrevPage |-> page > 0]

\* the pagination block of a listing: currentPage: parseInt(page), totalPages,
\* hasNextPage: parseInt(page) < totalPages, hasPrevPage: parseInt(page) > 1
pagination(page, limit, total) ==
    [currentPage |-> page,
     totalPages |-> totalPagesOf(total, limit),
     hasNextPage |-> page < totalPagesOf(total, limit),
     hasPrevPage |-> page > 1]

\* the answer of GET /books when the store does not change while it is served
listBooksAnswer(q) ==
    [books |-> filteredBooks(q, findBooks(q)),
     totalBooks |-> countBooks(q),
     totalPages |-> totalPagesOf(countBooks(q), q.limit)]

\* router.get('/', auth, ...): the three awaits of GET /books
StartListBooks(p, creds, queries) ==
    \E cred \in creds, q \in queries :
        Arrive(p, cred, Request("listBooks", 0, 0, 0, "", q), "listBooks_find")

ListBooks_find(p) ==
    /\ pc[p] = "listBooks_find"
    /\ \E page \in findBooksResults(req[p].body) :
          GotoLoaded(p, "listBooks_count", [books |-> filteredBooks(req[p].body, page)])
    /\ UNCHANGED <<users, books, reviews, ackedDeletes>>

ListBooks_count(p) ==
    /\ pc[p] = "listBooks_count"
    /\ GotoLoaded(p, "listBooks_genres",
                  [books |-> req[p].snap.books, totalBooks |-> countBooks(req[p].body)])
    /\ UNCHANGED <<users, books, reviews, ackedDeletes>>

\* Book.distinct('genre', {isActive: true}), then the answer
ListBooks_genres(p) ==
    /\ pc[p] = "listBooks_genres"
    /\ RespondWith(p, "Ok",
                   [books |-> req[p].snap.books,
                    totalBooks |-> req[p].snap.totalBooks,
                    genres |-> {books[b].genre : b \in {x \in BookIds : books[x].isActive}}]
                     @@ pagination(req[p].body.page, req[p].body.limit, req[p].snap.totalBooks))
    /\ UNCHANGED <<users, books, reviews, ackedDeletes>>

\* router.get('/:id', auth, ...)
StartGetBook(p, creds) ==
    \E cred \in creds, b \in BookIdInputs :
        Arrive(p, cred, Request("getBook", b, 0, 0, "", EmptyBody), "getBook_find")

GetBook_find(p) ==
    /\ pc[p] = "getBook_find"
    /\ RespondWith(p, getBookData(req[p].bookId, req[p].user).status,
                   getBookData(req[p].bookId, req[p].user))
    /\ UNCHANGED <<users, books, reviews, ackedDeletes>>

\* a request arrives on a route without auth
ArriveOpen(p, r, first) ==
    /\ pc[p] \in {"idle", "done"}
    /\ pc' = [pc EXCEPT ![p] = first]
    /\ resp' = [resp EXCEPT ![p] = NoResp]
    /\ req' = [req EXCEPT ![p] = r]
    /\ UNCHANGED <<users, books, reviews, ackedDeletes, reviewStore>>

\* ------------------------------- GET /reviews/book/:bookId, /user/:userId
\* req.query of a review listing: page and limit, 1 and 10 when not given
ReviewQuery(q) ==
    [page |-> IF "page" \in DOMAIN q THEN q.page ELSE 1,
     limit |-> IF "limit" \in DOMAIN q THEN q.limit ELSE 10]

\* Review.find(filter).sort({createdAt: -1}).skip(skip).limit(limit), for the
\* set S of reviews that match the filter
findReviews(S, q) == SkipLimit(ByCreatedAt(S, -1), (q.page - 1) * q.limit, q.limit)

\* the reviews matching {bookId, isActive: true}
ActiveReviewsOfBook(b) == {r \in ReviewIds : reviews[r].bookId = b /\ reviews[r].isActive}

StartListReviewsForBook(p, queries) ==
    \E b \in BookIdInputs, q \in queries :
        ArriveOpen(p, Request("listReviewsForBook", b, 0, 0, "", ReviewQuery(q)),
                   "listReviewsForBook_find")

ListReviewsForBook_find(p) ==
    /\ pc[p] = "listReviewsForBook_find"
    /\ GotoLoaded(p, "listReviewsForBook_count",
                  [reviews |-> findReviews(ActiveReviewsOfBook(req[p].bookId), req[p].body)])
    /\ UNCHANGED <<users, books, reviews, ackedDeletes>>

ListReviewsForBook_count(p) ==
    /\ pc[p] = "listReviewsForBook_count"
    /\ GotoLoaded(p, "listReviewsForBook_aggregate",
                  [reviews |-> req[p].snap.reviews,
                   totalReviews |-> Cardinality(ActiveReviewsOfBook(req[p].bookId))])
    /\ UNCHANGED <<users, books, reviews, ackedDeletes>>

\* Review.aggregate([...]), then the answer
ListReviewsForBook_aggregate(p) ==
    /\ pc[p] = "listReviewsForBook_aggregate"
    /\ RespondWith(p, "Ok",
                   [reviews |-> req[p].snap.reviews,
                    totalReviews |-> req[p].snap.totalReviews,
                    statistics |-> [reviewStatistics(req[p].bookId)
                                      EXCEPT !.totalReviews = req[p].snap.totalReviews]]
                     @@ pagination(req[p].body.page, req[p].body.limit,
                                   req[p].snap.totalReviews))
    /\ UNCHANGED <<users, books, reviews, ackedDeletes>>

StartReviewsByUser(p, queries) ==
    \E u \in ActiveUsers, q \in queries :
        ArriveOpen(p, Request("reviewsByUser", 0, 0, 0, "", ReviewQuery(q) @@ [userId |-> u]),
                   "reviewsByUser_find")

ReviewsByUser_find(p) ==
    /\ pc[p] = "reviewsByUser_find"
    /\ GotoLoaded(p, "reviewsByUser_count",
                  [reviews |-> findReviews(reviewsByUser(req[p].body.userId), req[p].body)])
    /\ UNCHANGED <<users, books, reviews, ackedDeletes>>

\* Review.countDocuments({userId, isActive: true}), then the answer
ReviewsByUser_count(p) ==
    /\ pc[p] = "reviewsByUser_count"
    /\ LET totalReviews == Cardinality(reviewsByUser(req[p].body.userId))
       IN RespondWith(p, "Ok",
                      [reviews |-> req[p].snap.reviews, totalReviews |-> totalReviews]
                        @@ pagination(req[p].body.page, req[p].body.limit, totalReviews))
    /\ UNCHANGED <<users, books, reviews, ackedDeletes>>

\* -------------------------------------------------- GET /users/leaderboard
\* req.query of the leaderboard: type and limit, 'books' and 10 when not given
BoardQuery(q) ==
    [type |-> IF "type" \in DOMAIN q THEN q.type ELSE "books",
     limit |-> IF "limit" \in DOMAIN q THEN q.limit ELSE 10]

\* {$match: {isActive: true}}, {$group: {_id: '$addedBy' or '$userId',
\* count: {$sum: 1}}}: the number of active records per user id
activeCount(type, u) ==
    IF type = "books"
      THEN Cardinality({b \in BookIds : books[b].isActive /\ books[b].addedBy = u})
      ELSE Cardinality({r \in ReviewIds : reviews[r].isActive /\ reviews[r].userId = u})

\* the pipeline without {$match: {'user.isActive': true}}
boardEntriesOfAllUsers(type) ==
    {[user |-> u, count |-> activeCount(type, u)] :
        u \in {x \in DOMAIN users : activeCount(type, x) > 0}}

\* $lookup of the user, $unwind, {$match: {'user.isActive': true}}, $project
boardEntries(type) ==
    {[user |-> u, count |-> activeCount(type, u)] :
        u \in {x \in DOMAIN users : users[x].isActive /\ activeCount(type, x) > 0}}

\* {$sort: {count: -1}}, {$limit: limit}: entries of equal count come in any
\* order
boardResults(entries, limit) ==
    {SkipLimit(ord, 0, limit) :
        ord \in {o \in [1..Cardinality(entries) -> entries] :
                    /\ \A i, j \in DOMAIN o : i # j => o[i] # o[j]
                    /\ \A i, j \in DOMAIN o : i < j => o[i].count >= o[j].count}}

StartLeaderboard(p, queries) ==
    \E q \in queries :
        ArriveOpen(p, Request("leaderboard", 0, 0, 0, "", BoardQuery(q)), "leaderboard_aggregate")

\* Book.aggregate([...]) or Review.aggregate([...]), or neither, then the answer
Leaderboard_aggregate(p) ==
    /\ pc[p] = "leaderboard_aggregate"
    /\ IF req[p].body.type \in {"books", "reviews"}
         THEN \E leaderboard \in boardResults(boardEntries(req[p].body.type), req[p].body.limit) :
                 RespondWith(p, "Ok", [leaderboard |-> leaderboard, type |-> req[p].body.type])
         ELSE RespondWith(p, "Ok", [leaderboard |-> <<>>, type |-> req[p].body.type])
    /\ UNCHANGED <<users, books, reviews, ackedDeletes>>

\* ------------------------------------------------------ GET /users/search
\* String.prototype.trim, on sequences of characters
RECURSIVE TrimStart(_)
TrimStart(str) ==
    IF str # <<>> /\ Head(str) = " " THEN TrimStart(Tail(str)) ELSE str

RECURSIVE TrimEnd(_)
TrimEnd(str) ==
    IF str # <<>> /\ str[Len(str)] = " " THEN TrimEnd(SubSeq(str, 1, Len(str) - 1)) ELSE str

Trim(str) == TrimEnd(TrimStart(str))

\* {$regex: q, $options: 'i'}: q is the source of a regular expression,
\* searched for anywhere in the text without regard to case.  Of the
\* metacharacters the model has the dot, which stands for any character.
regexTest(q, text) ==
    \E off \in 0..(Len(text) - Len(q)) :
        \A k \in 1..Len(q) : q[k] = "." \/ ToLowerChar(q[k]) = ToLowerChar(text[off + k])

\* the code of a character, by which MongoDB compares strings
CharCode(c) ==
    CASE c = " " -> 32 [] c = "." -> 46 [] c = "A" -> 65 [] c = "Z" -> 90
      [] c = "a" -> 97 [] c = "z" -> 122

\* a <= b in that order
RECURSIVE StringLeq(_, _)
StringLeq(a, b) ==
    IF a = <<>> THEN TRUE
    ELSE IF b = <<>> THEN FALSE
    ELSE IF Head(a) # Head(b) THEN CharCode(Head(a)) < CharCode(Head(b))
    ELSE StringLeq(Tail(a), Tail(b))

\* User.find({$and: [{isActive: true}, {$or: [{name: regex}, {bio: regex}]}]})
findUsers(q) ==
    {u \in DOMAIN users :
        users[u].isActive /\ (regexTest(q, users[u].name) \/ regexTest(q, users[u].bio))}

\* .limit(limit).sort({name: 1}): sorted, then cut; users of one name come
\* in any order
searchResults(found, limit) ==
    {SkipLimit(ord, 0, limit) :
        ord \in {o \in [1..Cardinality(found) -> found] :
                    /\ \A i, j \in DOMAIN o : i # j => o[i] # o[j]
                    /\ \A i, j \in DOMAIN o :
                          i < j => StringLeq(users[o[i]].name, users[o[j]].name)}}

\* !q || q.trim().length < 2, for a req.query that may lack q
queryTooShort(query) == "q" \notin DOMAIN query \/ query.q = <<>> \/ Len(Trim(query.q)) < 2

\* the handler up to its first await: the 400, or on to User.find
StartSearchUsers(p, queries) ==
    \E query \in queries :
        /\ pc[p] \in {"idle", "done"}
        /\ req' = [req EXCEPT ![p] = Request("searchUsers", 0, 0, 0, "", query)]
        /\ IF queryTooShort(query)
             THEN /\ pc' = [pc EXCEPT ![p] = "done"]
                  /\ resp' = [resp EXCEPT ![p] = [status |-> "InvalidQuery", from |-> "handler",
                                                  data |-> [users |-> <<>>]]]
             ELSE /\ pc' = [pc EXCEPT ![p] = "searchUsers_find"]
                  /\ resp' = [resp EXCEPT ![p] = NoResp]
        /\ UNCHANGED <<users, books, reviews, ackedDeletes, reviewStore>>

SearchUsers_find(p) ==
    /\ pc[p] = "searchUsers_find"
    /\ \E found \in searchResults(findUsers(req[p].body.q),
                                   IF "limit" \in DOMAIN req[p].body THEN req[p].body.limit ELSE 10) :
          /\ pc' = [pc EXCEPT ![p] = "done"]
          /\ resp' = [resp EXCEPT ![p] = [status |-> "Ok", from |-> "handler",
                                          data |-> [users |-> found]]]
          /\ UNCHANGED req
    /\ UNCHANGED <<users, books, reviews, ackedDeletes, reviewStore>>

\* ------------------------------------------------- GET /books/:id/similar
\* Book.find({_id: {$ne: id}, isActive: true, $or: [{genre}, {author},
\* {tags: {$in: tags}}]}) for the target document loaded by findById
SimilarMatches(id, target) ==
    {x \in BookIds : /\ x # id
                     /\ books[x].isActive
                     /\ \/ books[x].genre = target.genre
                        \/ books[x].author = target.author
                        \/ books[x].tags \cap target.tags # {}}

\* a query that cuts the first SimilarLimit matches in creation order and
\* sorts what is left
limitThenSort(S) == ByCreatedAt({x \in S : Cardinality({y \in S : y < x}) < SimilarLimit}, -1)

\* .limit(6).sort({createdAt: -1}): a query sorts before it limits, in
\* whatever order the two are chained
sortThenLimit(S) == SkipLimit(ByCreatedAt(S, -1), 0, SimilarLimit)

StartSimilarBooks(p, ids) ==
    \E b \in ids :
        ArriveOpen(p, Request("similarBooks", b, 0, 0, "", EmptyBody), "similarBooks_findById")

\* Book.findById(req.params.id): no isActive in the filter
SimilarBooks_findById(p) ==
    /\ pc[p] = "similarBooks_findById"
    /\ IF req[p].bookId \notin BookIds
         THEN RespondWith(p, "BookNotFound", [books |-> <<>>])
         ELSE GotoLoaded(p, "similarBooks_find", books[req[p].bookId])
    /\ UNCHANGED <<users, books, reviews, ackedDeletes>>

SimilarBooks_find(p) ==
    /\ pc[p] = "similarBooks_find"
    /\ RespondWith(p, "Ok", [books |-> sortThenLimit(SimilarMatches(req[p].bookId, req[p].snap))])
    /\ UNCHANGED <<users, books, reviews, ackedDeletes>>

\* ------------------------------------------------------ POST /auth/signup

SignupPcs == {"signup_find", "signup_save"}

\* body('email').isEmail().normalizeEmail(): the address in lower case
normalizeEmail(email) == ToLowerCase(email)

\* validateSignup, then the handler; req.body is {name, email, password}
StartSignup(p, emails) ==
    \E email \in emails :
        /\ Cardinality(DOMAIN users) + Cardinality({q \in Procs : pc[q] \in SignupPcs})
              < NumUsers + 1 + MaxSignups
        /\ ArriveOpen(p, Request("signup", 0, 0, 0, "",
                                 [name |-> "Newcomer", email |-> normalizeEmail(email),
                                  password |-> Plain("secret1")]),
                      "signup_find")

\* User.findOne({email})
Signup_find(p) ==
    /\ pc[p] = "signup_find"
    /\ IF \E u \in DOMAIN users : users[u].email = req[p].body.email
         THEN Respond(p, "UserExists")
         ELSE Goto(p, "signup_save")
    /\ UNCHANGED <<users, books, reviews, ackedDeletes>>

\* a users collection without the unique index on email
NoUniqueEmailIndex(email) == FALSE

\* email: {unique: true}: an insert is refused when a stored user has the email
UniqueEmailViolated(email) == \E u \in DOMAIN users : users[u].email = email

\* the _id of a new user: an id no user has had
NewUserId ==
    (CHOOSE m \in DOMAIN users \cup {MissingUser} :
        \A x \in DOMAIN users \cup {MissingUser} : x <= m) + 1

\* new User({name, email, password}): the email setter lowercases, the
\* pre('save') hook hashes the password
NewUser(body) ==
    [name |-> body.name, email |-> ToLowerCase(body.email),
     password |-> bcryptHash(body.password),
     bio |-> "", avatar |-> "", favoriteGenres |-> {}, isActive |-> TRUE]

\* await user.save()
Signup_save(p) ==
    /\ pc[p] = "signup_save"
    /\ IF UniqueEmailViolated(NewUser(req[p].body).email)
         THEN Throw(p, "E11000 email") /\ users' = users
         ELSE /\ users' = users @@ (NewUserId :> NewUser(req[p].body))
              /\ Respond(p, "Created")
    /\ UNCHANGED <<books, reviews, ackedDeletes>>

\* ------------------------------------------------------ PUT /auth/profile
StartUpdateProfile(p, creds, bodies) ==
    \E cred \in creds, body \in bodies :
        Arrive(p, cred, Request("updateProfile", 0, 0, 0, "", body), "updateProfile_find")

\* the assignments without the destructuring: every key of the body is assigned
profileChangesUnfiltered(body) == body

\* const {name, bio, favoriteGenres, avatar} = req.body and the four
\* assignments: name and favoriteGenres when truthy, bio and avatar when
\* not undefined
profileChanges(body) ==
    [f \in {k \in DOMAIN body \cap {"name", "bio", "favoriteGenres", "avatar"} :
               k = "name" => body[k] # ""} |-> body[f]]

\* User.findById(req.user._id)
UpdateProfile_find(p) ==
    /\ pc[p] = "updateProfile_find"
    /\ Goto(p, "updateProfile_save")
    /\ UNCHANGED <<users, books, reviews, ackedDeletes>>

\* the assignments and user.save(): save() writes the assigned paths
UpdateProfile_save(p) ==
    /\ pc[p] = "updateProfile_save"
    /\ users' = [users EXCEPT ![req[p].user] = ApplyBody(@, profileChanges(req[p].body))]
    /\ Respond(p, "Ok")
    /\ UNCHANGED <<books, reviews, ackedDeletes>>

\* ------------------------------------------------------- request inputs
ValidCredentials == {[kind |-> "valid", id |-> u] : u \in ActiveUsers}

BookA == [title |-> "Dune", author |-> "Herbert", genre |-> "Sci-Fi", publishedYear |-> 1965,
          tags |-> {"space"}]
BookB == [title |-> "Emma", author |-> "Austen", genre |-> "Romance", publishedYear |-> 1815,
          tags |-> {"classic"}]

\* bodies of PUT /books/:id: validateBook checks title, author, description,
\* genre and publishedYear and lets any other key of the body through
WithOwner == {BookB @@ [addedBy |-> u] : u \in ActiveUsers}
WithFlag == {BookB @@ [isActive |-> FALSE]}

\* addresses of signup requests: one that differs only in case from the
\* address of user 1, and two spellings of a new one
SignupEmails == {<<"A">>, <<"z">>, <<"Z">>}

\* bodies of PUT /auth/profile: the route has no validator, so a body may
\* carry any key
ProfileBodies ==
    {[name |-> "Neo", bio |-> "reads a lot"],
     [name |-> "", avatar |-> "http://img/1", favoriteGenres |-> {"Sci-Fi"}],
     [name |-> "Neo", email |-> <<"q">>, password |-> Plain("hacked"), isActive |-> FALSE]}

\* the credential of user 1
FirstUser == {[kind |-> "valid", id |-> 1]}

\* credentials of a visitor: a signed-in user, or none
BrowseCredentials == ValidCredentials \cup {NoCred}

\* the queries of GET /books that the requests of the model carry
BrowseQueries ==
    {BookQuery(genre, "", sortBy, sortOrder, hasMinRating, 40, page, limit) :
        genre \in {"", "Sci-Fi"}, sortBy \in {"createdAt", "averageRating"},
        sortOrder \in {"asc", "desc"}, hasMinRating \in BOOLEAN,
        page \in 1..MaxPage, limit \in 1..MaxLimit}

\* a third kind of book: the genre of BookA, the author and a tag of BookB
BookC == [title |-> "Solaris", author |-> "Austen", genre |-> "Sci-Fi", publishedYear |-> 1961,
          tags |-> {"classic", "ocean"}]

\* the books a shelf is filled from: the three kinds, and a deleted BookA
ShelfBooks ==
    {NewBook(BookA, 1), NewBook(BookB, 1), NewBook(BookC, 1),
     [NewBook(BookA, 1) EXCEPT !.isActive = FALSE]}

\* the ids asked for: the oldest book, the newest, and an id no book has
SimilarTargets == {1, ShelfSize, ShelfSize + 1}

\* bodies of PUT /reviews/:id: without a title, and with one
ReviewTitles == {EmptyBody, [title |-> "Great"]}

\* queries of the review listings: none (page 1 of 10), and pages of 1 or 2
ReviewQueries ==
    {EmptyBody} \cup {[page |-> page, limit |-> limit] : page \in 1..(MaxPage + 1),
                                                        limit \in 1..MaxLimit}

\* queries of the leaderboard: none, each type with limits 1 and 2, and a
\* type the route does not know
BoardQueries ==
    {EmptyBody, [type |-> "authors"]}
      \cup {[type |-> type, limit |-> limit] : type \in {"books", "reviews"}, limit \in 1..2}

\* the books and reviews of a store: of any stored user, active or deleted
BoardBooks ==
    {[NewBook(BookA, u) EXCEPT !.isActive = a] :
        u \in ActiveUsers \cup {InactiveUser}, a \in BOOLEAN}

BoardReviews(b) ==
    {[NewReview(b, u, 5, "a good read") EXCEPT !.isActive = a, !.editedAt = 1] :
        u \in ActiveUsers \cup {InactiveUser}, a \in BOOLEAN}

\* the users of a community: names and bios are sequences of characters
MemberNames == {<<"A", "z">>, <<"z", "a">>, <<"a", ".">>}
MemberBios == {<<>>, <<"Z", "a">>}

Members(u) ==
    {[SeedUser(u) EXCEPT !.name = name, !.bio = bio, !.isActive = active] :
        name \in MemberNames, bio \in MemberBios, active \in BOOLEAN}

\* req.query of GET /users/search: without q, with an empty one, one of a
\* single letter, the same after a blank, two letters in either case, and
\* a letter and a dot
SearchQueries ==
    {EmptyBody, [q |-> <<>>], [q |-> <<"a">>], [q |-> <<" ", "a">>],
     [q |-> <<"a", "z">>, limit |-> 1], [q |-> <<"Z", "A">>], [q |-> <<"a", ".">>]}

\* queries of GET /books sorted by publishedYear or by createdAt
PagingQueries ==
    {BookQuery("", "", sortBy, sortOrder, FALSE, 0, page, limit) :
        sortBy \in {"publishedYear", "createdAt"}, sortOrder \in {"asc", "desc"},
        page \in 1..MaxPage, limit \in 1..MaxLimit}

\* ------------------------------------------------------------ seedDatabase
\* the admin user and the demo users of seedData.ts
adminUser ==
    [name |-> "Vansh Tuteja", email |-> <<"a">>, password |-> Plain("admin123"),
     bio |-> "Platform administrator and book enthusiast", favoriteGenres |-> {"Fiction", "Sci-Fi", "Fantasy"}]

demoUsers ==
    <<[name |-> "Rohan Patel", email |-> <<"b">>, password |-> Plain("patel123"),
       bio |-> "Avid reader and literature professor", favoriteGenres |-> {"Fiction", "History", "Biography"}],
      [name |-> "Sourav Chatterjee", email |-> <<"c">>, password |-> Plain("demo123"),
       bio |-> "Science fiction enthusiast and tech writer", favoriteGenres |-> {"Sci-Fi", "Technology", "Fantasy"}],
      [name |-> "Vikas Gupta", email |-> <<"d">>, password |-> Plain("demo123"),
       bio |-> "Mystery novel collector and crime story fan", favoriteGenres |-> {"Mystery", "Thriller", "Crime"}]>>

\* the book data of ./mockBooks: a list that is not empty
mockBooks == [i \in 1..MaxBooks |-> IF i % 2 = 1 THEN BookA ELSE BookB]

\* Math.floor(Math.random() * 3) + 1
NumReviewsPerBook == 1..3

\* Math.floor(Math.random() * 5) + 1, of which the model draws one value
SeedRatings == {MaxRating}

\* new User(userData): bio and favoriteGenres are given as well
NewSeedUser(body) ==
    [NewUser(body) EXCEPT !.bio = body.bio, !.favoriteGenres = body.favoriteGenres]

\* the local variables of seedDatabase: allUsers (the ids of the users made),
\* the index j into demoUsers, the index i into mockBooks or createdBooks,
\* numReviews, the counter k of the inner loop and the randomUser drawn
NoSeed == [allUsers |-> <<>>, j |-> 1, i |-> 1, numReviews |-> 0, k |-> 0, randomUser |-> 0]

\* seedDatabase() starts: at process start, and again whenever the process
\* is started again
StartSeedDatabase(p) ==
    ArriveOpen(p, [Request("seedDatabase", 0, 0, 0, "", EmptyBody) EXCEPT !.snap = NoSeed],
               "seed_count")

\* a count of the books that are active only
countActiveBooks == Cardinality({b \in BookIds : books[b].isActive})

\* Book.countDocuments(): every stored book counts, active or not
existingBooks == Len(books)

\* const existingBooks = await Book.countDocuments(); if (existingBooks > 0) return
Seed_count(p) ==
    /\ pc[p] = "seed_count"
    /\ IF existingBooks > 0 THEN Respond(p, "Skipped") ELSE Goto(p, "seed_adminUser")
    /\ UNCHANGED <<users, books, reviews, ackedDeletes>>

\* await adminUser.save()
Seed_adminUser(p) ==
    /\ pc[p] = "seed_adminUser"
    /\ IF UniqueEmailViolated(NewSeedUser(adminUser).email)
         THEN Throw(p, "E11000 email") /\ users' = users
         ELSE /\ users' = users @@ (NewUserId :> NewSeedUser(adminUser))
              /\ GotoLoaded(p, "seed_demoUsers", [req[p].snap EXCEPT !.allUsers = <<NewUserId>>])
    /\ UNCHANGED <<books, reviews, ackedDeletes>>

\* for (const userData of demoUsers) { await user.save() }: one save
Seed_demoUsers(p) ==
    /\ pc[p] = "seed_demoUsers"
    /\ LET local == req[p].snap
           user == NewSeedUser(demoUsers[local.j])
       IN IF UniqueEmailViolated(user.email)
            THEN Throw(p, "E11000 email") /\ users' = users
            ELSE /\ users' = users @@ (NewUserId :> user)
                 /\ GotoLoaded(p, IF local.j = Len(demoUsers) THEN "seed_books"
                                                              ELSE "seed_demoUsers",
                               [local EXCEPT !.allUsers = Append(@, NewUserId), !.j = @ + 1])
    /\ UNCHANGED <<books, reviews, ackedDeletes>>

\* the next iteration of the review loops after iteration k of book i: the
\* inner loop goes on, or the next book draws its numReviews, or the
\* function returns
SeedNextReview(p, local) ==
    IF local.k < local.numReviews
      THEN GotoLoaded(p, "seed_reviewFind", [local EXCEPT !.k = @ + 1])
    ELSE IF local.i < Len(books)
      THEN \E n \in NumReviewsPerBook :
              GotoLoaded(p, "seed_reviewFind",
                         [local EXCEPT !.i = @ + 1, !.numReviews = n, !.k = 1])
    ELSE Respond(p, "Seeded")

\* for (i < mockBooks.length) { randomUser = ...; await book.save() }: one save
Seed_books(p) ==
    /\ pc[p] = "seed_books"
    /\ LET local == req[p].snap IN
         \E randomUser \in {local.allUsers[x] : x \in DOMAIN local.allUsers} :
            /\ books' = Append(books, NewBook(mockBooks[local.i], randomUser))
            /\ IF local.i < Len(mockBooks)
                 THEN GotoLoaded(p, "seed_books", [local EXCEPT !.i = @ + 1])
                 ELSE \E n \in NumReviewsPerBook :
                         GotoLoaded(p, "seed_reviewFind",
                                    [local EXCEPT !.i = 1, !.numReviews = n, !.k = 1])
    /\ UNCHANGED <<users, reviews, ackedDeletes>>

\* randomUser = ...; await Review.findOne({bookId, userId}): no isActive
\* in the filter
Seed_reviewFind(p) ==
    /\ pc[p] = "seed_reviewFind"
    /\ LET local == req[p].snap IN
         \E randomUser \in {local.allUsers[x] : x \in DOMAIN local.allUsers} :
            IF \E r \in ReviewIds : reviews[r].bookId = local.i /\ reviews[r].userId = randomUser
              THEN SeedNextReview(p, local)
              ELSE GotoLoaded(p, "seed_reviewSave", [local EXCEPT !.randomUser = randomUser])
    /\ UNCHANGED <<users, books, reviews, ackedDeletes>>

\* new Review({bookId, userId, ...randomReview, rating}); await review.save()
Seed_reviewSave(p) ==
    /\ pc[p] = "seed_reviewSave"
    /\ LET local == req[p].snap IN
         \E rating \in SeedRatings :
            IF UniqueIndexViolated(local.i, local.randomUser)
              THEN Throw(p, "E11000") /\ reviews' = reviews
              ELSE LET review == [NewReview(local.i, local.randomUser, rating, "a good read")
                                    EXCEPT !.title = "Highly recommended"]
                   IN /\ reviews' = Append(reviews,
                                           ApplyBody(review, reviewPreSave(NewReviewPaths, review)))
                      /\ SeedNextReview(p, local)
    /\ UNCHANGED <<users, books, ackedDeletes>>

\* ------------------------------------------- client: useReviewStore actions
\* what a client step leaves alone on the server side
ServerUnchanged == UNCHANGED <<users, books, reviews, pc, req, resp, ackedDeletes>>

\* an action of the store begins: set({ isLoading: true, error: null }), with
\* the arguments it was called with
BeginCall(call) ==
    /\ reviewStore.call = NoCall
    /\ reviewStore' = [reviewStore EXCEPT !.isLoading = TRUE, !.error = FALSE, !.call = call]
    /\ ServerUnchanged

\* the promise of the HTTP call in slot p settles: the slot is free again
Settle(p) ==
    /\ pc' = [pc EXCEPT ![p] = "idle"]
    /\ req' = [req EXCEPT ![p] = NoReq]
    /\ resp' = [resp EXCEPT ![p] = NoResp]
    /\ UNCHANGED <<users, books, reviews, ackedDeletes>>

\* the catch block: set({ isLoading: false, error: ... })
Failed == [reviewStore EXCEPT !.isLoading = FALSE, !.error = TRUE, !.call = NoCall]

\* fetchBookReviews(bookId)
FetchBookReviews_set ==
    \E b \in BookIdInputs :
        BeginCall([NoCall EXCEPT !.action = "fetchBookReviews", !.bookId = b])

\* reviewAPI.getBookReviews(bookId, page): GET /reviews/book/:bookId?page=1
FetchBookReviews_call(p) ==
    /\ reviewStore.call.action = "fetchBookReviews" /\ pc[p] = "idle"
    /\ ArriveOpen(p, Request("listReviewsForBook", reviewStore.call.bookId, 0, 0, "",
                              ReviewQuery([page |-> 1])),
                  "listReviewsForBook_find")

\* if (response.success) set({ reviews, ratingDistribution, averageRating,
\* totalReviews, isLoading: false })
FetchBookReviews_then(p) ==
    /\ reviewStore.call.action = "fetchBookReviews" /\ pc[p] = "done"
    /\ reviewStore' =
         IF resp[p].status = "Ok"
           THEN [reviewStore EXCEPT
                   !.reviews = resp[p].data.reviews,
                   !.ratingDistribution = resp[p].data.statistics.ratingDistribution,
                   !.averageRating = resp[p].data.statistics.averageRating,
                   !.totalReviews = resp[p].data.statistics.totalReviews,
                   !.isLoading = FALSE, !.call = NoCall]
           ELSE Failed
    /\ Settle(p)

\* createReview(data, token)
CreateReview_set(ratings) ==
    \E b \in BookIdInputs, rating \in ratings :
        /\ Len(reviews) < MaxReviews
        /\ BeginCall([NoCall EXCEPT !.action = "createReview", !.bookId = b, !.rating = rating])

\* reviewAPI.createReview(data, token): POST /reviews
CreateReview_call(p, creds) ==
    /\ reviewStore.call.action = "createReview" /\ pc[p] = "idle"
    /\ \E cred \in creds :
          Arrive(p, cred, Request("createReview", reviewStore.call.bookId, 0,
                                  reviewStore.call.rating, "a good read", EmptyBody),
                 "createReview_findBook")

\* set({ reviews: [response.data.review, ...reviews],
\*       totalReviews: get().totalReviews + 1, isLoading: false })
CreateReview_then(p) ==
    /\ reviewStore.call.action = "createReview" /\ pc[p] = "done"
    /\ reviewStore' =
         IF resp[p].status = "Created"
           THEN [reviewStore EXCEPT
                   !.reviews = <<resp[p].data.review>> \o @,
                   !.totalReviews = @ + 1,
                   !.isLoading = FALSE, !.call = NoCall]
           ELSE Failed
    /\ Settle(p)

\* deleteReview(id, token)
DeleteReview_set ==
    \E id \in ReviewIdInputs :
        BeginCall([NoCall EXCEPT !.action = "deleteReview", !.id = id])

\* reviewAPI.deleteReview(id, token): DELETE /reviews/:id
DeleteReview_call(p, creds) ==
    /\ reviewStore.call.action = "deleteReview" /\ pc[p] = "idle"
    /\ \E cred \in creds :
          Arrive(p, cred, Request("deleteReview", 0, reviewStore.call.id, 0, "", EmptyBody),
                 "deleteReview_find")

\* if (response.success) await get().fetchRecentReviews(5)
DeleteReview_then(p) ==
    /\ reviewStore.call.action = "deleteReview" /\ pc[p] = "done"
    /\ reviewStore' =
         IF resp[p].status = "Ok"
           THEN [reviewStore EXCEPT !.call.action = "deleteReview_fetchRecent"]
           ELSE Failed
    /\ Settle(p)

\* Array.prototype.filter((r) => r._id !== id)
WithoutId(list, id) == SelectSeq(list, LAMBDA r : r # id)

\* Math.max(0, n)
MathMax0(n) == IF n < 0 THEN 0 ELSE n

\* fetchRecentReviews has settled (it touches recentReviews only): set({
\* reviews: reviews.filter(...), totalReviews: Math.max(0, totalReviews - 1),
\* isLoading: false })
DeleteReview_afterRecent ==
    /\ reviewStore.call.action = "deleteReview_fetchRecent"
    /\ reviewStore' = [reviewStore EXCEPT
                         !.reviews = WithoutId(@, reviewStore.call.id),
                         !.totalReviews = MathMax0(@ - 1),
                         !.isLoading = FALSE, !.call = NoCall]
    /\ ServerUnchanged

\* ------------------------------------------------------- specifications
\* Reviews created and deleted by concurrently served requests.
NextReviews ==
    \E p \in Procs :
        \/ StartCreateBook(p, ValidCredentials, {BookA})
        \/ CreateBook_save(p)
        \/ StartCreateReview(p, ValidCredentials, {4}, {"a good read"})
        \/ CreateReview_findBook(p)
        \/ CreateReview_findExisting(p)
        \/ CreateReview_save(p)
        \/ StartDeleteReview(p, ValidCredentials)
        \/ DeleteReview_find(p)
        \/ DeleteReview_save(p)

SpecReviews == Init /\ [][NextReviews]_vars

\* The catalogue and its reviews, one request at a time.
NextCatalog ==
    \E p \in {1} :
        \/ StartCreateBook(p, ValidCredentials, {BookA})
        \/ CreateBook_save(p)
        \/ StartUpdateBook(p, ValidCredentials, {BookB} \cup WithOwner \cup WithFlag)
        \/ UpdateBook_find(p)
        \/ UpdateBook_update(p)
        \/ StartDeleteBook(p, ValidCredentials)
        \/ DeleteBook_find(p)
        \/ DeleteBook_save(p)
        \/ DeleteBook_cascade(p)
        \/ StartCreateReview(p, ValidCredentials, {5}, {"a good read"})
        \/ CreateReview_findBook(p)
        \/ CreateReview_findExisting(p)
        \/ CreateReview_save(p)
        \/ StartUpdateReview(p, ValidCredentials, {4}, {"on second thought"}, {EmptyBody})
        \/ UpdateReview_find(p)
        \/ UpdateReview_save(p)
        \/ StartDeleteReview(p, ValidCredentials)
        \/ DeleteReview_find(p)
        \/ DeleteReview_save(p)

SpecCatalog == Init /\ [][NextCatalog]_vars

\* Every route guarded by auth, one request at a time, with every kind of
\* credential.
NextAuth ==
    \E p \in {1} :
        \/ StartCreateBook(p, Credentials, {BookA})
        \/ CreateBook_save(p)
        \/ StartUpdateBook(p, Credentials, {BookB})
        \/ UpdateBook_find(p)
        \/ UpdateBook_update(p)
        \/ StartDeleteBook(p, Credentials)
        \/ DeleteBook_find(p)
        \/ DeleteBook_save(p)
        \/ DeleteBook_cascade(p)
        \/ StartCreateReview(p, Credentials, {5}, {"a good read"})
        \/ CreateReview_findBook(p)
        \/ CreateReview_findExisting(p)
        \/ CreateReview_save(p)
        \/ StartUpdateReview(p, Credentials, {4}, {"on second thought"}, {EmptyBody})
        \/ UpdateReview_find(p)
        \/ UpdateReview_save(p)
        \/ StartDeleteReview(p, Credentials)
        \/ DeleteReview_find(p)
        \/ DeleteReview_save(p)

SpecAuth == Init /\ [][NextAuth]_vars

\* Reviews created while books are deleted or updated, concurrently.
NextCascade ==
    \E p \in Procs :
        \/ StartCreateBook(p, ValidCredentials, {BookA})
        \/ CreateBook_save(p)
        \/ StartDeleteBook(p, ValidCredentials)
        \/ DeleteBook_find(p)
        \/ DeleteBook_save(p)
        \/ DeleteBook_cascade(p)
        \/ StartCreateReview(p, ValidCredentials, {5}, {"a good read"})
        \/ CreateReview_findBook(p)
        \/ CreateReview_findExisting(p)
        \/ CreateReview_save(p)

SpecCascade == Init /\ [][NextCascade]_vars

\* The seeded book and review updated and deleted by concurrently served
\* requests.
NextOwner ==
    \E p \in Procs :
        \/ StartUpdateBook(p, ValidCredentials, WithOwner)
        \/ UpdateBook_find(p)
        \/ UpdateBook_update(p)
        \/ StartDeleteBook(p, ValidCredentials)
        \/ DeleteBook_find(p)
        \/ DeleteBook_save(p)
        \/ DeleteBook_cascade(p)
        \/ StartUpdateReview(p, ValidCredentials, {4}, {"on second thought"}, {EmptyBody})
        \/ UpdateReview_find(p)
        \/ UpdateReview_save(p)
        \/ StartDeleteReview(p, ValidCredentials)
        \/ DeleteReview_find(p)
        \/ DeleteReview_save(p)

SpecOwner == InitSeeded /\ [][NextOwner]_vars

\* The catalogue browsed, one request at a time.
NextBrowse ==
    \E p \in {1} :
        \/ StartCreateBook(p, FirstUser, {BookA, BookB})
        \/ CreateBook_save(p)
        \/ StartCreateReview(p, ValidCredentials, {3, 5}, {"a good read"})
        \/ CreateReview_findBook(p)
        \/ CreateReview_findExisting(p)
        \/ CreateReview_save(p)
        \/ StartDeleteReview(p, ValidCredentials)
        \/ DeleteReview_find(p)
        \/ DeleteReview_save(p)
        \/ StartListBooks(p, BrowseCredentials, BrowseQueries)
        \/ ListBooks_find(p)
        \/ ListBooks_count(p)
        \/ ListBooks_genres(p)
        \/ StartGetBook(p, BrowseCredentials)
        \/ GetBook_find(p)

SpecBrowse == Init /\ [][NextBrowse]_vars

\* Accounts created and profiles updated by concurrently served requests.
NextAccounts ==
    \E p \in Procs :
        \/ StartSignup(p, SignupEmails)
        \/ Signup_find(p)
        \/ Signup_save(p)
        \/ StartUpdateProfile(p, ValidCredentials, ProfileBodies)
        \/ UpdateProfile_find(p)
        \/ UpdateProfile_save(p)

SpecAccounts == InitSeeded /\ [][NextAccounts]_vars

\* Records looked up by id after they were soft-deleted, one request at a time.
NextLookup ==
    \E p \in {1} :
        \/ StartCreateBook(p, FirstUser, {BookA})
        \/ CreateBook_save(p)
        \/ StartUpdateBook(p, FirstUser, {BookB})
        \/ UpdateBook_find(p)
        \/ UpdateBook_update(p)
        \/ StartDeleteBook(p, FirstUser)
        \/ DeleteBook_find(p)
        \/ DeleteBook_save(p)
        \/ DeleteBook_cascade(p)
        \/ StartCreateReview(p, FirstUser, {5}, {"a good read"})
        \/ CreateReview_findBook(p)
        \/ CreateReview_findExisting(p)
        \/ CreateReview_save(p)
        \/ StartUpdateReview(p, FirstUser, {4}, {"on second thought"}, {EmptyBody})
        \/ UpdateReview_find(p)
        \/ UpdateReview_save(p)
        \/ StartDeleteReview(p, FirstUser)
        \/ DeleteReview_find(p)
        \/ DeleteReview_save(p)
        \/ StartToggleLike(p, FirstUser)
        \/ ToggleLike_find(p)
        \/ ToggleLike_save(p)
        \/ StartGetBook(p, FirstUser)
        \/ GetBook_find(p)

SpecLookup == Init /\ [][NextLookup]_vars

\* Likes toggled by concurrently served requests.
NextLikes ==
    \E p \in Procs :
        \/ StartCreateBook(p, ValidCredentials, {BookA})
        \/ CreateBook_save(p)
        \/ StartCreateReview(p, ValidCredentials, {5}, {"a good read"})
        \/ CreateReview_findBook(p)
        \/ CreateReview_findExisting(p)
        \/ CreateReview_save(p)
        \/ StartToggleLike(p, ValidCredentials)
        \/ ToggleLike_find(p)
        \/ ToggleLike_save(p)

SpecLikes == Init /\ [][NextLikes]_vars

\* The catalogue walked page by page in the order of a field of the books.
NextPaging ==
    \E p \in {1} :
        \/ StartCreateBook(p, FirstUser, {BookA, BookB})
        \/ CreateBook_save(p)
        \/ StartListBooks(p, FirstUser, PagingQueries)
        \/ ListBooks_find(p)
        \/ ListBooks_count(p)
        \/ ListBooks_genres(p)

SpecPaging == Init /\ [][NextPaging]_vars

\* A catalogue of ShelfSize books, created and deleted before the first
\* request, asked for the books similar to one of them.
InitShelf ==
    /\ users = [u \in ActiveUsers \cup {InactiveUser} |-> SeedUser(u)]
    /\ books \in [1..ShelfSize -> ShelfBooks]
    /\ reviews = <<>>
    /\ pc = [p \in Procs |-> "idle"]
    /\ req = [p \in Procs |-> NoReq]
    /\ resp = [p \in Procs |-> NoResp]
    /\ ackedDeletes = {}
    /\ reviewStore = initialState

NextSimilar ==
    \E p \in {1} :
        \/ StartSimilarBooks(p, SimilarTargets)
        \/ SimilarBooks_findById(p)
        \/ SimilarBooks_find(p)

SpecSimilar == InitShelf /\ [][NextSimilar]_vars

\* The seeded review edited by concurrently served requests.
NextEdits ==
    \E p \in Procs :
        \/ StartUpdateReview(p, ValidCredentials, {4, 5}, {"a good read", "on second thought"},
                             ReviewTitles)
        \/ UpdateReview_find(p)
        \/ UpdateReview_save(p)

SpecEdits == InitSeeded /\ [][NextEdits]_vars

\* Every operation that writes to the store, one request at a time.
NextStore ==
    \E p \in {1} :
        \/ StartSignup(p, {<<"Z">>})
        \/ Signup_find(p)
        \/ Signup_save(p)
        \/ StartUpdateProfile(p, FirstUser, {[name |-> "Neo", bio |-> "reads a lot"]})
        \/ UpdateProfile_find(p)
        \/ UpdateProfile_save(p)
        \/ StartCreateBook(p, FirstUser, {BookA})
        \/ CreateBook_save(p)
        \/ StartUpdateBook(p, FirstUser, {BookB})
        \/ UpdateBook_find(p)
        \/ UpdateBook_update(p)
        \/ StartDeleteBook(p, FirstUser)
        \/ DeleteBook_find(p)
        \/ DeleteBook_save(p)
        \/ DeleteBook_cascade(p)
        \/ StartCreateReview(p, FirstUser, {5}, {"a good read"})
        \/ CreateReview_findBook(p)
        \/ CreateReview_findExisting(p)
        \/ CreateReview_save(p)
        \/ StartUpdateReview(p, FirstUser, {4}, {"on second thought"}, {EmptyBody})
        \/ UpdateReview_find(p)
        \/ UpdateReview_save(p)
        \/ StartDeleteReview(p, FirstUser)
        \/ DeleteReview_find(p)
        \/ DeleteReview_save(p)
        \/ StartToggleLike(p, FirstUser)
        \/ ToggleLike_find(p)
        \/ ToggleLike_save(p)

SpecStore == Init /\ [][NextStore]_vars

\* Books and reviews listed page by page, one request at a time.
NextListings ==
    \E p \in {1} :
        \/ StartCreateBook(p, FirstUser, {BookA})
        \/ CreateBook_save(p)
        \/ StartCreateReview(p, ValidCredentials, {5}, {"a good read"})
        \/ CreateReview_findBook(p)
        \/ CreateReview_findExisting(p)
        \/ CreateReview_save(p)
        \/ StartDeleteReview(p, ValidCredentials)
        \/ DeleteReview_find(p)
        \/ DeleteReview_save(p)
        \/ StartListBooks(p, FirstUser, PagingQueries)
        \/ ListBooks_find(p)
        \/ ListBooks_count(p)
        \/ ListBooks_genres(p)
        \/ StartListReviewsForBook(p, ReviewQueries)
        \/ ListReviewsForBook_find(p)
        \/ ListReviewsForBook_count(p)
        \/ ListReviewsForBook_aggregate(p)
        \/ StartReviewsByUser(p, ReviewQueries)
        \/ ReviewsByUser_find(p)
        \/ ReviewsByUser_count(p)

SpecListings == Init /\ [][NextListings]_vars

\* A store of BoardSize books and one review of each of the first
\* MaxReviews of them, written before the first request by users of whom
\* one has been deactivated since; the leaderboard is asked for.
InitBoard ==
    /\ users = [u \in ActiveUsers \cup {InactiveUser} |-> SeedUser(u)]
    /\ books \in [1..BoardSize -> BoardBooks]
    /\ reviews \in {rs \in [1..MaxReviews -> UNION {BoardReviews(b) : b \in 1..MaxReviews}] :
                       \A r \in 1..MaxReviews : rs[r].bookId = r}
    /\ pc = [p \in Procs |-> "idle"]
    /\ req = [p \in Procs |-> NoReq]
    /\ resp = [p \in Procs |-> NoResp]
    /\ ackedDeletes = {}
    /\ reviewStore = initialState

NextBoard ==
    \E p \in {1} :
        \/ StartLeaderboard(p, BoardQueries)
        \/ Leaderboard_aggregate(p)

SpecBoard == InitBoard /\ [][NextBoard]_vars

\* A community of MaxMembers users, some deactivated, searched by name and bio.
InitCommunity ==
    /\ users \in {us \in [1..MaxMembers -> UNION {Members(u) : u \in 1..MaxMembers}] :
                     \A u \in 1..MaxMembers : us[u].email = SeedUser(u).email}
    /\ books = <<>>
    /\ reviews = <<>>
    /\ pc = [p \in Procs |-> "idle"]
    /\ req = [p \in Procs |-> NoReq]
    /\ resp = [p \in Procs |-> NoResp]
    /\ ackedDeletes = {}
    /\ reviewStore = initialState

NextSearch ==
    \E p \in {1} :
        \/ StartSearchUsers(p, SearchQueries)
        \/ SearchUsers_find(p)

SpecSearch == InitCommunity /\ [][NextSearch]_vars

\* ================================================================ claims
CreateReviewPcs == {"createReview_findBook", "createReview_findExisting", "createReview_save"}

\* the request in slot p is answered in this step
Answered(p) == pc[p] \in HandlerPcs /\ pc'[p] = "done"

\* the process starts on an empty database and seeds it; it is started again
\* any number of times, and between the runs the admin deletes books
InitEmpty ==
    /\ users = [u \in {} |-> SeedUser(u)]
    /\ books = <<>>
    /\ reviews = <<>>
    /\ pc = [p \in Procs |-> "idle"]
    /\ req = [p \in Procs |-> NoReq]
    /\ resp = [p \in Procs |-> NoResp]
    /\ ackedDeletes = {}
    /\ reviewStore = initialState

SeededAdmin == {[kind |-> "valid", id |-> MissingUser + 1]}

NextSeed ==
    \E p \in {1} :
        \/ StartSeedDatabase(p)
        \/ Seed_count(p)
        \/ Seed_adminUser(p)
        \/ Seed_demoUsers(p)
        \/ Seed_books(p)
        \/ Seed_reviewFind(p)
        \/ Seed_reviewSave(p)
        \/ StartDeleteBook(p, SeededAdmin)
        \/ DeleteBook_find(p)
        \/ DeleteBook_save(p)
        \/ DeleteBook_cascade(p)

SpecSeed == InitEmpty /\ [][NextSeed]_vars

\* one signed-in reader uses the review store of the client, over a store
\* with one book and one review of it by someone else
NextClient ==
    \/ FetchBookReviews_set
    \/ CreateReview_set({4})
    \/ DeleteReview_set
    \/ DeleteReview_afterRecent
    \/ \E p \in {1} :
        \/ FetchBookReviews_call(p)
        \/ ListReviewsForBook_find(p)
        \/ ListReviewsForBook_count(p)
        \/ ListReviewsForBook_aggregate(p)
        \/ FetchBookReviews_then(p)
        \/ CreateReview_call(p, FirstUser)
        \/ CreateReview_findBook(p)
        \/ CreateReview_findExisting(p)
        \/ CreateReview_save(p)
        \/ CreateReview_then(p)
        \/ DeleteReview_call(p, FirstUser)
        \/ DeleteReview_find(p)
        \/ DeleteReview_save(p)
        \/ DeleteReview_then(p)

SpecClient == InitSeeded /\ [][NextClient]_vars

\* ---------------------------------------------------------------- C1
NoTwoActiveReviewsOfAPair ==
    \A r1, r2 \in ReviewIds :
        (/\ r1 # r2
         /\ reviews[r1].isActive /\ reviews[r2].isActive
         /\ reviews[r1].bookId = reviews[r2].bookId) => reviews[r1].userId # reviews[r2].userId

CreateReviewAnswer(p) ==
    (req[p].op = "createReview" /\ Answered(p)) =>
        /\ resp'[p].status \in {"Created", "BookNotFound", "DuplicateReview"}
        /\ resp'[p].status = "Created" =>
              /\ ~ExistingReview(req[p].bookId, req[p].user)
              /\ Len(reviews') = Len(reviews) + 1
        /\ ExistingReview(req[p].bookId, req[p].user) =>
              /\ resp'[p].status \in {"BookNotFound", "DuplicateReview"}
              /\ reviews' = reviews

\* C1: under any interleaving of createReview requests the store never holds
\* two active reviews of one (bookId, userId) pair: a request for a pair that
\* already has an active review stores nothing and is answered
\* DuplicateReview (or BookNotFound), never with a generic error.
C1_OneActiveReviewPerPair ==
    /\ []NoTwoActiveReviewsOfAPair
    /\ [][\A p \in Procs : CreateReviewAnswer(p)]_vars

\* two requests for one pair both passed the existence check; one was stored,
\* the other ran into the index and was answered DuplicateReview
C1_Witness ==
    \E p, q \in Procs :
        /\ p # q
        /\ pc[p] = "done" /\ req[p].op = "createReview" /\ resp[p].status = "Created"
        /\ pc[q] = "done" /\ req[q].op = "createReview"
        /\ resp[q] = [status |-> "DuplicateReview", from |-> "errorHandler"]
        /\ Len(reviews) = 1 /\ reviews[1].isActive

\* ---------------------------------------------------------------- C7
\* C7: createReview on an active book succeeds whenever the user has no
\* active review of that book (also after the user's earlier review of it was
\* soft-deleted) and is answered DuplicateReview only when an active review of
\* (bookId, user) exists.
C7_DuplicateOnlyWhenActive ==
    [][\A p \in Procs :
         (req[p].op = "createReview" /\ Answered(p)) =>
            /\ resp'[p].status = "DuplicateReview" => ExistingReview(req[p].bookId, req[p].user)
            /\ (FindActiveBook(req[p].bookId) /\ ~ExistingReview(req[p].bookId, req[p].user))
                  => resp'[p].status = "Created"]_vars

\* ---------------------------------------------------------------- C10
\* the credential validates to a stored user whose isActive flag is true
CredentialAccepted(cred) ==
    /\ cred.kind = "valid"
    /\ \E u \in DOMAIN users : u = cred.id /\ users[u].isActive

HandlerOnlyAfterAuth ==
    \A p \in Procs :
        /\ pc[p] \in HandlerPcs => (CredentialAccepted(req[p].cred) /\ req[p].user = req[p].cred.id)
        /\ (pc[p] = "done" /\ resp[p].from # "auth") => req[p].op # "none"

\* a request arrives in slot p in this step
Arrives(p) == pc[p] \in {"idle", "done"} /\ <<pc'[p], req'[p], resp'[p]>> # <<pc[p], req[p], resp[p]>>

RejectedAtOnce(p) ==
    (Arrives(p) /\ ~CredentialAccepted(req'[p].cred)) =>
        /\ pc'[p] = "done"
        /\ resp'[p] = [status |-> "Unauthorized", from |-> "auth"]
        /\ <<users', books', reviews'>> = <<users, books, reviews>>

\* C10: a request to a route guarded by auth reaches its handler only with a
\* credential that validates to a stored, active user; with an absent,
\* malformed or expired credential, or a missing or inactive user, it is
\* answered 401, no handler step runs and the store is unchanged.
C10_AuthGuardsHandlers ==
    /\ []HandlerOnlyAfterAuth
    /\ [][\A p \in Procs : RejectedAtOnce(p)]_vars

\* the token of the inactive user was turned away while the store held records
C10_Witness ==
    \E p \in Procs :
        /\ pc[p] = "done" /\ resp[p].status = "Unauthorized"
        /\ req[p].cred = [kind |-> "valid", id |-> InactiveUser]
        /\ Len(books) > 0 /\ Len(reviews) > 0

\* ---------------------------------------------------------------- C2
ActiveReviewsOf(b) == {r \in ReviewIds : reviews[r].bookId = b /\ reviews[r].isActive}

\* the mean of the ratings rs rounded to one decimal, in tenths: the t with
\* t - 1/2 <= 10 * sum / n < t + 1/2
MeanToOneDecimal(rs) ==
    IF rs = {} THEN 0
    ELSE LET n == Cardinality(rs)
             sum == SumRatings(rs)
         IN CHOOSE t \in 0..(10 * MaxRating) :
                2 * n * t - n <= 20 * sum /\ 20 * sum < 2 * n * t + n

\* C2: after any sequence of createReview, updateReview, deleteReview and
\* deleteBook, the averageRating reported for a listed book is the mean of
\* its active reviews' ratings rounded to one decimal (0 without any) and
\* reviewCount is the number of its active reviews.
C2_AverageOverActiveReviews ==
    \A b \in listBooks :
        /\ getBook(b).averageRating = MeanToOneDecimal(ActiveReviewsOf(b))
        /\ getBook(b).reviewCount = Cardinality(ActiveReviewsOf(b))

\* ---------------------------------------------------------------- C3
ReviewsOf(b) == {r \in ReviewIds : reviews[r].bookId = b}

\* C3: once deleteBook(b) has been acknowledged, no list or get operation
\* returns b or a review of b.
C3_DeletedBookInvisible ==
    \A b \in ackedDeletes :
        /\ b \notin listBooks
        /\ getBook(b).status = "BookNotFound"
        /\ \A x \in BookIds : b \notin similarBooks(x)
        /\ listReviewsForBook(b).reviews = {}
        /\ recentReviews \cap ReviewsOf(b) = {}
        /\ \A u \in DOMAIN users :
              /\ reviewsByUser(u) \cap ReviewsOf(b) = {}
              /\ b \notin userProfile(u).books
              /\ userProfile(u).reviews \cap ReviewsOf(b) = {}
              /\ b \notin authMe(u).books
              /\ authMe(u).reviews \cap ReviewsOf(b) = {}

\* ---------------------------------------------------------------- C6
\* C6: the owner reference addedBy of a book never changes after creation.
C6_OwnerImmutable ==
    [][\A b \in BookIds : books'[b].addedBy = books[b].addedBy]_vars

\* ---------------------------------------------------------------- C8
CascadePending(b) == \E p \in Procs : pc[p] = "deleteBook_cascade" /\ req[p].bookId = b

ActiveReviewsOnActiveBooks ==
    \A r \in ReviewIds :
        reviews[r].isActive => (books[reviews[r].bookId].isActive \/ CascadePending(reviews[r].bookId))

\* C8: every active review references an active book, whatever the
\* interleaving of createReview with deleteBook: createReview on a missing or
\* inactive book is answered BookNotFound and stores nothing, and no completed
\* operation leaves a book inactive with an active review.
C8_ActiveReviewHasActiveBook ==
    /\ []ActiveReviewsOnActiveBooks
    /\ [][\A p \in Procs :
            (req[p].op = "createReview" /\ Answered(p) /\ ~FindActiveBook(req[p].bookId)) =>
                (resp'[p].status = "BookNotFound" /\ reviews' = reviews)]_vars

\* ---------------------------------------------------------------- C4
\* C4: once deleteBook(b) by b's owner has been acknowledged, b and every
\* review of b are inactive, getBook(b) answers NotFound and
\* listReviewsForBook(b) answers an empty list with totalReviews = 0.
C4_AcknowledgedDeleteIsFinal ==
    \A b \in ackedDeletes :
        /\ ~books[b].isActive
        /\ \A r \in ReviewsOf(b) : ~reviews[r].isActive
        /\ getBook(b).status = "BookNotFound"
        /\ listReviewsForBook(b) = [reviews |-> {}, totalReviews |-> 0]

\* ---------------------------------------------------------------- C5
Moves(p) == pc'[p] # pc[p]

BookChangedByOwner(b) ==
    \E p \in Procs :
        /\ Moves(p) /\ pc[p] \in {"updateBook_update", "deleteBook_save"}
        /\ req[p].bookId = b /\ req[p].user = books[b].addedBy

ReviewChangedByAuthor(r) ==
    \E p \in Procs :
        /\ Moves(p)
        /\ \/ /\ pc[p] \in {"updateReview_save", "deleteReview_save"}
              /\ req[p].reviewId = r /\ req[p].user = reviews[r].userId
           \/ /\ pc[p] = "deleteBook_cascade"
              /\ req[p].bookId = reviews[r].bookId
              /\ req[p].user = books[reviews[r].bookId].addedBy

StrangerRefused(p) ==
    /\ (/\ Answered(p) /\ req[p].op \in {"updateBook", "deleteBook"}
        /\ FindActiveBook(req[p].bookId) /\ books[req[p].bookId].addedBy # req[p].user)
         => (resp'[p].status = "Forbidden" /\ <<users', books', reviews'>> = <<users, books, reviews>>)
    /\ (/\ Answered(p) /\ req[p].op \in {"updateReview", "deleteReview"}
        /\ FindActiveReview(req[p].reviewId) /\ reviews[req[p].reviewId].userId # req[p].user)
         => (resp'[p].status = "Forbidden" /\ <<users', books', reviews'>> = <<users, books, reviews>>)

\* C5: a book changes only in a step of an updateBook or deleteBook request
\* of the user who owns it, a review's rating, text and active flag only in a
\* step of an updateReview or deleteReview request of its author (or of the
\* cascade of the book owner's deleteBook); a request of any other user is
\* answered Forbidden and changes no record.
C5_OwnerOnlyMutation ==
    [][/\ \A b \in BookIds : books'[b] # books[b] => BookChangedByOwner(b)
       /\ \A r \in ReviewIds :
             <<reviews'[r].rating, reviews'[r].reviewText, reviews'[r].isActive>>
               # <<reviews[r].rating, reviews[r].reviewText, reviews[r].isActive>>
                 => ReviewChangedByAuthor(r)
       /\ \A p \in Procs : StrangerRefused(p)]_vars

\* ---------------------------------------------------------------- C9
SetOf(seq) == {seq[i] : i \in 1..Len(seq)}

\* one toggleLike request of user u served with no other request in between
ToggleAlone(likes, u) == likesAfterToggle(likes, likes, u)

\* C9: two toggleLike requests of one caller in sequence on an active review,
\* with no other request in between, leave the review's liker set and
\* likeCount as they were.
C9_ToggleTwiceRestores ==
    \A r \in ReviewIds : \A u \in ActiveUsers :
        reviews[r].isActive =>
            LET twice == ToggleAlone(ToggleAlone(reviews[r].likes, u), u)
            IN /\ SetOf(twice) = SetOf(reviews[r].likes)
               /\ Len(twice) = Len(reviews[r].likes)

\* ---------------------------------------------------------------- C11
\* C11: listBooks and getBook need no authentication: a request to GET /books
\* or GET /books/:id that carries no credential is not turned away with an
\* authentication error.
C11_BrowsingNeedsNoCredential ==
    [][\A p \in Procs :
         (Arrives(p) /\ req'[p].op \in {"listBooks", "getBook"} /\ req'[p].cred.kind = "absent")
            => resp'[p].status # "Unauthorized"]_vars

\* ---------------------------------------------------------------- C12
\* C12: getBook by an authenticated user who has an active review of the book
\* returns that review as userReview, and returns no userReview when the
\* caller has no review of the book.
C12_UserReviewReturned ==
    [][\A p \in Procs :
         (req[p].op = "getBook" /\ Answered(p) /\ FindActiveBook(req[p].bookId)) =>
            LET mine == {r \in ActiveReviewsOf(req[p].bookId) : reviews[r].userId = req[p].user}
                any == {r \in ReviewsOf(req[p].bookId) : reviews[r].userId = req[p].user}
            IN /\ resp'[p].status = "Ok"
               /\ mine # {} => resp'[p].data.userReview \in mine
               /\ any = {} => resp'[p].data.userReview = 0]_vars

\* ---------------------------------------------------------------- C13
\* the number of active reviews of b per star value
ActiveDistribution(b) ==
    [star \in MinRating..MaxRating |->
        Cardinality({r \in ActiveReviewsOf(b) : reviews[r].rating = star})]

RECURSIVE SumOver(_, _)
SumOver(f, S) == IF S = {} THEN 0 ELSE LET x == CHOOSE y \in S : TRUE IN f[x] + SumOver(f, S \ {x})

\* C13: for every book the ratingDistribution of getBook and that of
\* listReviewsForBook both count, per star value 1..5, exactly the active
\* reviews of the book with that rating; the five counts sum to totalReviews
\* and the two operations report the same distribution.
C13_DistributionOverActiveReviews ==
    \A b \in BookIds : \A u \in ActiveUsers :
        books[b].isActive =>
            /\ getBookData(b, u).ratingDistribution = ActiveDistribution(b)
            /\ reviewStatistics(b).ratingDistribution = ActiveDistribution(b)
            /\ SumOver(getBookData(b, u).ratingDistribution, MinRating..MaxRating)
                 = listReviewsForBook(b).totalReviews
            /\ getBookData(b, u).ratingDistribution = reviewStatistics(b).ratingDistribution

\* ---------------------------------------------------------------- C14
EmailsUnique ==
    \A u, v \in DOMAIN users :
        u # v => ToLowerCase(users[u].email) # ToLowerCase(users[v].email)

\* the address is registered already, in whatever spelling
Registered(email) ==
    \E u \in DOMAIN users : ToLowerCase(users[u].email) = ToLowerCase(email)

\* C14: no two user records, active or inactive, have the same email compared
\* case-insensitively, also when signups with one email are served
\* concurrently; a signup with a registered email creates no user.
C14_EmailsUnique ==
    /\ []EmailsUnique
    /\ [][\A p \in Procs :
            (pc[p] \in SignupPcs /\ pc'[p] = "done" /\ Registered(req[p].body.email))
               => (users' = users /\ resp'[p].status # "Created")]_vars

\* two signups with two spellings of one new address both passed findOne; one
\* user was created and the other insert ran into the index
C14_Witness ==
    \E p, q \in Procs :
        /\ p # q
        /\ pc[p] = "done" /\ req[p].op = "signup" /\ resp[p].status = "Created"
        /\ pc[q] = "done" /\ req[q].op = "signup" /\ resp[q].from = "errorHandler"
        /\ Cardinality({u \in DOMAIN users : users[u].email = <<"z">>}) = 1

\* ---------------------------------------------------------------- C17
ProfileFrame(p) ==
    (req[p].op = "updateProfile" /\ Moves(p) /\ pc[p] \in HandlerPcs) =>
        /\ DOMAIN users' = DOMAIN users
        /\ \A u \in DOMAIN users : u # req[p].user => users'[u] = users[u]
        /\ users'[req[p].user].email = users[req[p].user].email
        /\ users'[req[p].user].password = users[req[p].user].password
        /\ users'[req[p].user].isActive = users[req[p].user].isActive
        /\ books' = books /\ reviews' = reviews

\* C17: updateProfile changes at most the caller's own name, bio,
\* favoriteGenres and avatar: never the caller's email, credential hash or
\* active flag, and no other user, book or review.
C17_ProfileUpdateFrame == [][\A p \in Procs : ProfileFrame(p)]_vars

\* a body that also carried email, password and isActive was applied: the
\* name changed and nothing else
C17_Witness ==
    \E p \in Procs : \E u \in ActiveUsers :
        /\ pc[p] = "done" /\ req[p].op = "updateProfile" /\ resp[p].status = "Ok"
        /\ users[u] = [SeedUser(u) EXCEPT !.name = "Neo"]
        /\ Len(books) > 0 /\ Len(reviews) > 0

\* ---------------------------------------------------------------- C15
\* an id that no book, respectively no review, ever had
AbsentBook == MaxBooks + 1
AbsentReview == MaxReviews + 1

BookLookupPcs == {"getBook_find", "updateBook_find", "deleteBook_find", "createReview_findBook"}
ReviewLookupPcs == {"updateReview_find", "deleteReview_find", "toggleLike_find"}

SoftDeletedBook(b) == b \in BookIds /\ ~books[b].isActive
SoftDeletedReview(r) == r \in ReviewIds /\ ~reviews[r].isActive

\* the lookup of a handler answers a soft-deleted id with NotFound and
\* changes nothing, as it does for an id that never existed
LookupOfDeleted(p) ==
    /\ (pc[p] \in BookLookupPcs /\ Moves(p) /\ SoftDeletedBook(req[p].bookId)) =>
          /\ pc'[p] = "done" /\ resp'[p].status = "BookNotFound"
          /\ <<users', books', reviews'>> = <<users, books, reviews>>
    /\ (pc[p] \in ReviewLookupPcs /\ Moves(p) /\ SoftDeletedReview(req[p].reviewId)) =>
          /\ pc'[p] = "done" /\ resp'[p].status = "ReviewNotFound"
          /\ <<users', books', reviews'>> = <<users, books, reviews>>

ReadsOfDeleted ==
    \A b \in BookIds : \A u \in ActiveUsers :
        SoftDeletedBook(b) =>
            /\ getBookData(b, u) = getBookData(AbsentBook, u)
            /\ similarBooksAnswer(b) = similarBooksAnswer(AbsentBook)

\* C15: every operation that takes a book id or a review id (getBook,
\* updateBook, deleteBook, similarBooks, createReview, updateReview,
\* deleteReview, toggleLike) answers the id of a soft-deleted record as it
\* answers an id that never existed: NotFound.
C15_DeletedLooksAbsent ==
    /\ []ReadsOfDeleted
    /\ [][\A p \in Procs : LookupOfDeleted(p)]_vars

\* ---------------------------------------------------------------- C16
\* the number of items on pages 1..k of the query q
RECURSIVE ItemsOnPages(_, _)
ItemsOnPages(q, k) ==
    IF k = 0 THEN 0
    ELSE Len(listBooksAnswer([q EXCEPT !.page = k]).books) + ItemsOnPages(q, k - 1)

\* C16: for a filter set without minRating and an unchanging store, the
\* numbers of items that listBooks returns for pages 1..totalPages sum to
\* totalBooks.
C16_PagesSumToTotal ==
    [][\A p \in Procs :
         (req[p].op = "listBooks" /\ Answered(p) /\ ~req[p].body.hasMinRating) =>
            ItemsOnPages(req[p].body, resp'[p].data.totalPages) = resp'[p].data.totalBooks]_vars

\* one of two pages of one item each was served
C16_Witness ==
    \E p \in Procs :
        /\ pc[p] = "done" /\ req[p].op = "listBooks" /\ resp[p].status = "Ok"
        /\ resp[p].data.totalBooks = 2 /\ resp[p].data.totalPages = 2
        /\ Len(resp[p].data.books) = 1
        /\ Len(reviews) = 0

\* ---------------------------------------------------------------- C19
\* the books of the page that q asks for: the matching books are ranked by
\* creation, newest first unless q sorts by createdAt ascending
RequestedPage(q) ==
    LET matching == {b \in BookIds : MatchesQuery(b, q)}
        newestFirst == q.sortBy = "averageRating" \/ q.sortOrder = "desc"
        rank(b) == Cardinality({x \in matching : IF newestFirst THEN x > b ELSE x < b})
    IN {b \in matching : (q.page - 1) * q.limit <= rank(b) /\ rank(b) < q.page * q.limit}

\* C19: with sortBy = averageRating, listBooks returns items of the current
\* page only (the page selected by createdAt descending), in non-increasing
\* averageRating order for sortOrder = desc and in non-decreasing order for
\* sortOrder = asc.
C19_RatingSortWithinPage ==
    [][\A p \in Procs :
         (req[p].op = "listBooks" /\ Answered(p) /\ req[p].body.sortBy = "averageRating") =>
            LET items == resp'[p].data.books
            IN /\ SetOf(items) \subseteq RequestedPage(req[p].body)
               /\ \A i \in 1..(Len(items) - 1) :
                     IF req[p].body.sortOrder = "desc"
                       THEN bookAverageRating(items[i]) >= bookAverageRating(items[i + 1])
                       ELSE bookAverageRating(items[i]) <= bookAverageRating(items[i + 1])]_vars

\* ---------------------------------------------------------------- C20
\* C20: minRating is applied to the page already cut: the items returned are
\* exactly the books of the requested page whose averageRating is at least
\* minRating, and totalBooks and totalPages are those of the same request
\* without minRating.
C20_MinRatingAfterPaging ==
    [][\A p \in Procs :
         (req[p].op = "listBooks" /\ Answered(p) /\ req[p].body.hasMinRating) =>
            LET q == req[p].body
                plain == listBooksAnswer([q EXCEPT !.hasMinRating = FALSE])
            IN /\ SetOf(resp'[p].data.books)
                     = {b \in RequestedPage(q) :
                           MeanToOneDecimal(ActiveReviewsOf(b)) >= q.minRating}
               /\ Len(resp'[p].data.books) = Cardinality(SetOf(resp'[p].data.books))
               /\ resp'[p].data.totalBooks = plain.totalBooks
               /\ resp'[p].data.totalPages = plain.totalPages]_vars

\* ---------------------------------------------------------------- C18
\* how often u is in likes
Occurrences(likes, u) == Cardinality({i \in 1..Len(likes) : likes[i] = u})

\* the save of a toggleLike request decides on the array it loaded, not on
\* the stored one
ToggleDecidedOnLoaded(p) ==
    (pc[p] = "toggleLike_save" /\ Moves(p)) =>
        LET r == req[p].reviewId
            u == req[p].user
            loaded == req[p].snap
            stored == reviews[r]
        IN /\ IndexOf(loaded.likes, u) = 0 =>
                 /\ reviews'[r].likes = Append(stored.likes, u)
                 /\ resp'[p].status = "Ok"
           /\ (IndexOf(loaded.likes, u) > 0 /\ loaded.v = stored.v) =>
                 /\ reviews'[r].likes = Splice1(loaded.likes, IndexOf(loaded.likes, u))
                 /\ resp'[p].status = "Ok"
           /\ (IndexOf(loaded.likes, u) > 0 /\ loaded.v # stored.v) =>
                 /\ reviews'[r].likes = stored.likes
                 /\ resp'[p].from = "errorHandler"
           \* a request that loaded the current array toggles as if alone
           /\ (loaded.likes = stored.likes /\ loaded.v = stored.v) =>
                 reviews'[r].likes = ToggleAlone(stored.likes, u)
           \* a user gets into likes twice only through a stale like
           /\ (Occurrences(stored.likes, u) = 1 /\ Occurrences(reviews'[r].likes, u) = 2) =>
                 (loaded.v # stored.v /\ IndexOf(loaded.likes, u) = 0)

\* C18: toggleLike is a read-modify-write that is not atomic: each request
\* decides to like or unlike on the membership it read, so two concurrent
\* requests of one user that read the same membership both take the same
\* branch, which leaves a liker set or likeCount that no sequential execution
\* of the two toggles leaves.
C18_ToggleReadModifyWrite == [][\A p \in Procs : ToggleDecidedOnLoaded(p)]_vars

\* both requests of user u read likes without u and both pushed u: likeCount
\* went up by 2, where two toggles in sequence leave it unchanged
C18_Witness ==
    \E r \in ReviewIds : \E u \in ActiveUsers :
        /\ reviews[r].likes = <<u, u>>
        /\ \A p \in Procs :
              pc[p] = "done" /\ req[p].op = "toggleLike" /\ resp[p].status = "Ok"

\* ---------------------------------------------------------------- C21
\* the matching books in the order of the sort key, books equal on the key
\* newest first
RECURSIVE TieBrokenOrder(_, _, _)
TieBrokenOrder(S, sortBy, dir) ==
    IF S = {} THEN <<>>
    ELSE LET first == CHOOSE x \in S : \A y \in S \ {x} :
                          \/ dir * SortKey(x, sortBy) < dir * SortKey(y, sortBy)
                          \/ (SortKey(x, sortBy) = SortKey(y, sortBy) /\ x > y)
         IN <<first>> \o TieBrokenOrder(S \ {first}, sortBy, dir)

\* the page of q cut from that order
TieBrokenPage(q) ==
    SkipLimit(TieBrokenOrder({b \in BookIds : MatchesQuery(b, q)}, q.sortBy,
                             IF q.sortOrder = "desc" THEN -1 ELSE 1),
              (q.page - 1) * q.limit, q.limit)

\* C21: listBooks orders books that are equal on the primary sort key by
\* createdAt descending, so for an unchanged store every page is the same
\* cut of one order, and pages 1..totalPages hold every matching book
\* exactly once.  (Stated for the sort keys stored in the book; the order by
\* averageRating is C19's.)
C21_TieBreakByCreatedAt ==
    [][\A p \in Procs :
         (/\ req[p].op = "listBooks" /\ Answered(p)
          /\ req[p].body.sortBy # "averageRating" /\ ~req[p].body.hasMinRating)
            => resp'[p].data.books = TieBrokenPage(req[p].body)]_vars

\* ---------------------------------------------------------------- C22
\* x is similar to the book with id b
SimilarTo(x, b) ==
    /\ x # b /\ books[x].isActive
    /\ \/ books[x].genre = books[b].genre
       \/ books[x].author = books[b].author
       \/ books[x].tags \cap books[b].tags # {}

SimilarAnswer(p) ==
    (req[p].op = "similarBooks" /\ Answered(p) /\ req[p].bookId \in BookIds) =>
        LET b == req[p].bookId
            found == resp'[p].data.books
            all == {x \in BookIds : SimilarTo(x, b)}
        IN /\ resp'[p].status = "Ok"
           /\ SetOf(found) \subseteq all
           /\ \A i, j \in 1..Len(found) : i < j => found[i] > found[j]
           /\ Len(found) <= SimilarLimit
           /\ Len(found) = IF Cardinality(all) < SimilarLimit THEN Cardinality(all)
                           ELSE SimilarLimit
           /\ \A x \in all \ SetOf(found) : \A y \in SetOf(found) : x < y

\* C22: similarBooks(id) returns only active books other than the target
\* whose genre equals the target's, or whose author equals the target's, or
\* whose tags intersect the target's; the result is ordered most recently
\* created first and holds at most 6 books, namely the 6 most recent matches.
C22_SimilarBooks == [][\A p \in Procs : SimilarAnswer(p)]_vars

\* the newest book was asked for, all seven others are similar to it, and
\* the oldest of them was left out
C22_Witness ==
    \E p \in Procs :
        /\ pc[p] = "done" /\ req[p].op = "similarBooks" /\ resp[p].status = "Ok"
        /\ resp[p].data.books = <<7, 6, 5, 4, 3, 2>>
        /\ books[1].isActive /\ books[1].genre = books[ShelfSize].genre
        /\ \E x \in BookIds : books[x].genre # books[ShelfSize].genre
        /\ \E x \in BookIds : books[x].author = books[ShelfSize].author /\ books[x].genre # books[ShelfSize].genre

\* ---------------------------------------------------------------- C24
\* review r is stamped in this step by an updateReview request that changes
\* its rating or its text
StampedByUpdate(r) ==
    \E p \in Procs :
        /\ pc[p] = "updateReview_save" /\ Moves(p) /\ req[p].reviewId = r
        /\ \/ req[p].rating # req[p].snap.rating
           \/ req[p].reviewText # req[p].snap.reviewText

\* C24: a review has no editedAt until its rating or text has been changed
\* by updateReview: createReview stores the review without editedAt, and
\* toggleLike, deleteReview and the cascade of deleteBook never set it.
C24_EditedAtOnlyByUpdate ==
    [][\A r \in 1..Len(reviews') :
         /\ r \notin ReviewIds => reviews'[r].editedAt = 0
         /\ (r \in ReviewIds /\ reviews'[r].editedAt # reviews[r].editedAt)
               => StampedByUpdate(r)]_vars

\* ---------------------------------------------------------------- C23
\* the save of an updateReview request stamps editedAt exactly when the
\* stored rating or text change in it
StampsWhenStoredChanges(p) ==
    (pc[p] = "updateReview_save" /\ Moves(p)) =>
        LET r == req[p].reviewId
        IN reviews'[r].editedAt # reviews[r].editedAt
             <=> (\/ reviews'[r].rating # reviews[r].rating
                  \/ reviews'[r].reviewText # reviews[r].reviewText)

\* the same, against the review as the handler loaded it
StampsWhenLoadedDiffers(p) ==
    (pc[p] = "updateReview_save" /\ Moves(p)) =>
        LET r == req[p].reviewId
            loaded == req[p].snap
        IN /\ reviews'[r].editedAt # reviews[r].editedAt
                <=> (req[p].rating # loaded.rating \/ req[p].reviewText # loaded.reviewText)
           \* served with no other update in between, that is when the stored
           \* rating or text change
           /\ (loaded.rating = reviews[r].rating /\ loaded.reviewText = reviews[r].reviewText)
                => StampsWhenStoredChanges(p)

RecordsKept ==
    /\ DOMAIN users \subseteq DOMAIN users'
    /\ Len(books') >= Len(books)
    /\ Len(reviews') >= Len(reviews)

\* a step of deleteBook or deleteReview changes active flags and nothing else
DeleteOnlyFlags(p) ==
    (req[p].op \in {"deleteBook", "deleteReview"} /\ pc[p] \in HandlerPcs /\ Moves(p)) =>
        /\ users' = users
        /\ Len(books') = Len(books) /\ Len(reviews') = Len(reviews)
        /\ \A b \in BookIds : [books'[b] EXCEPT !.isActive = books[b].isActive] = books[b]
        /\ \A r \in ReviewIds : [reviews'[r] EXCEPT !.isActive = reviews[r].isActive] = reviews[r]
        /\ \A b \in BookIds : books'[b].isActive => books[b].isActive
        /\ \A r \in ReviewIds : reviews'[r].isActive => reviews[r].isActive

ListingOps == {"listBooks", "listReviewsForBook", "reviewsByUser"}

ListingTotal(p) ==
    CASE req[p].op = "listBooks" -> Cardinality({b \in BookIds : MatchesQuery(b, req[p].body)})
      [] req[p].op = "listReviewsForBook" -> Cardinality(ActiveReviewsOf(req[p].bookId))
      [] req[p].op = "reviewsByUser" ->
            Cardinality({r \in ReviewIds : reviews[r].userId = req[p].body.userId
                                            /\ reviews[r].isActive})

PaginationRight(p) ==
    (req[p].op \in ListingOps /\ Answered(p)) =>
        LET d == resp'[p].data
            page == req[p].body.page
            size == req[p].body.limit
            total == ListingTotal(p)
        IN /\ resp'[p].status = "Ok"
           /\ d.currentPage = page
           \* totalPages is the least number of pages of that size that hold total
           /\ d.totalPages >= 0
           /\ d.totalPages * size >= total /\ (d.totalPages - 1) * size < total
           /\ d.hasNextPage <=> d.currentPage < d.totalPages
           /\ d.hasPrevPage <=> d.currentPage > 1

\* C26: every paginated listing (listBooks, listReviewsForBook, reviews by
\* user) returns currentPage equal to the requested 1-indexed page,
\* totalPages = ceil(total / pageSize), hasNextPage true exactly when
\* currentPage < totalPages, and hasPrevPage true exactly when currentPage > 1.
C26_PaginationFields == [][\A p \in Procs : PaginationRight(p)]_vars

\* the first of two pages of the reviews of a book was served: a next page
\* and no previous one
C26_Witness ==
    \E p \in Procs :
        /\ pc[p] = "done" /\ req[p].op = "listReviewsForBook" /\ resp[p].status = "Ok"
        /\ resp[p].data.currentPage = 1 /\ resp[p].data.totalPages = 2
        /\ resp[p].data.hasNextPage /\ ~resp[p].data.hasPrevPage
        /\ Len(resp[p].data.reviews) = 1 /\ resp[p].data.totalReviews = 2

\* ---------------------------------------------------------------- C27
\* the active users with an active book (or an active review) of their own
OnBoard(type) ==
    {u \in DOMAIN users :
        /\ users[u].isActive
        /\ IF type = "books" THEN \E b \in BookIds : books[b].isActive /\ books[b].addedBy = u
                             ELSE \E r \in ReviewIds : reviews[r].isActive /\ reviews[r].userId = u}

OwnActive(type, u) ==
    IF type = "books" THEN {b \in BookIds : books[b].isActive /\ books[b].addedBy = u}
                      ELSE {r \in ReviewIds : reviews[r].isActive /\ reviews[r].userId = u}

LeaderboardRight(p) ==
    (req[p].op = "leaderboard" /\ Answered(p) /\ req[p].body.type \in {"books", "reviews"}) =>
        LET type == req[p].body.type
            limit == req[p].body.limit
            board == resp'[p].data.leaderboard
            listed == {board[i].user : i \in 1..Len(board)}
        IN /\ Len(board) <= limit
           /\ \A i, j \in 1..Len(board) : i # j => board[i].user # board[j].user
           /\ listed \subseteq OnBoard(type)
           /\ \A i \in 1..Len(board) : board[i].count = Cardinality(OwnActive(type, board[i].user))
           /\ \A i, j \in 1..Len(board) : i < j => board[i].count >= board[j].count
           \* the cut leaves out nobody there is room for, and nobody ahead
           \* of a user listed
           /\ Len(board) = IF Cardinality(OnBoard(type)) < limit
                             THEN Cardinality(OnBoard(type)) ELSE limit
           /\ \A u \in OnBoard(type) \ listed : \A i \in 1..Len(board) :
                 Cardinality(OwnActive(type, u)) <= board[i].count

\* C27: leaderboard(type, limit) returns at most limit entries, one per
\* active user who owns at least one active book (type = books) or wrote at
\* least one active review (type = reviews), each with count equal to that
\* number of active records, in non-increasing order of count; inactive
\* users and inactive records are never counted or listed.
C27_Leaderboard == [][\A p \in Procs : LeaderboardRight(p)]_vars

\* the deactivated user owns an active book and user 1 only a deleted one:
\* neither is listed, user 2 is, with the one active book counted
C27_Witness ==
    \E p \in Procs :
        /\ pc[p] = "done" /\ req[p].op = "leaderboard" /\ resp[p].status = "Ok"
        /\ resp[p].data.type = "books"
        /\ resp[p].data.leaderboard = <<[user |-> 2, count |-> 1]>>
        /\ activeCount("books", InactiveUser) = 1
        /\ \E b \in BookIds : books[b].addedBy = 1 /\ ~books[b].isActive

\* ---------------------------------------------------------------- C28
\* text contains q as a substring, without regard to case
Contains(text, q) ==
    \E off \in 0..(Len(text) - Len(q)) :
        \A k \in 1..Len(q) : ToLowerChar(q[k]) = ToLowerChar(text[off + k])

\* the query is missing or shorter than 2 characters
ShortQuery(query) == "q" \notin DOMAIN query \/ Len(query.q) < 2

\* the request in slot p is answered in this step, at once or after the find
SearchAnswered(p) ==
    /\ req'[p].op = "searchUsers" /\ pc'[p] = "done"
    /\ <<pc'[p], req'[p], resp'[p]>> # <<pc[p], req[p], resp[p]>>

SearchRight(p) ==
    SearchAnswered(p) =>
        LET query == req'[p].body
            found == resp'[p].data.users
            limit == IF "limit" \in DOMAIN query THEN query.limit ELSE 10
            matching == {u \in DOMAIN users :
                            /\ users[u].isActive
                            /\ Contains(users[u].name, query.q) \/ Contains(users[u].bio, query.q)}
        IN IF ShortQuery(query)
             THEN resp'[p].status = "InvalidQuery" /\ found = <<>>
             ELSE /\ resp'[p].status = "Ok"
                  /\ SetOf(found) \subseteq matching
                  /\ \A i, j \in 1..Len(found) :
                        i < j => StringLeq(users[found[i]].name, users[found[j]].name)
                  /\ Len(found) = IF Cardinality(matching) < limit THEN Cardinality(matching)
                                  ELSE limit

\* C28: searchUsers fails with InvalidQuery (400) and returns no users when
\* the query is missing or shorter than 2 characters; otherwise it returns
\* only active users whose name or bio contains the query without regard to
\* case, sorted by name ascending and capped at limit.
C28_SearchUsers == [][\A p \in Procs : SearchRight(p)]_vars

\* ---------------------------------------------------------------- C29
\* a run of seedDatabase is at one of its awaits
Seeding(p) == pc[p] \in {"seed_count", "seed_adminUser", "seed_demoUsers", "seed_books",
                          "seed_reviewFind", "seed_reviewSave"}

\* a run that finds a book at its first step creates nothing: it returns
\* there, and the collections are as they were
GuardedRun ==
    \A p \in Procs :
        (pc[p] = "seed_count" /\ Len(books) > 0 /\ pc'[p] # pc[p])
            => /\ pc'[p] = "done" /\ resp'[p].status = "Skipped"
               /\ UNCHANGED <<users, books, reviews>>

\* a run that has written everything leaves a book, so the next run is a
\* guarded one
CompletedLeavesABook ==
    \A p \in Procs :
        (Seeding(p) /\ resp'[p].status = "Seeded") => Len(books') > 0

\* no two reviews, active or not, are of the same book by the same user
NoTwoSeededReviewsOfAPair ==
    \A r1, r2 \in ReviewIds :
        (r1 # r2 /\ reviews[r1].bookId = reviews[r2].bookId)
            => reviews[r1].userId # reviews[r2].userId

\* C29: seedDatabase creates nothing when a book exists (so a run after a
\* completed seeding leaves the store as it was), and the reviews it creates
\* never include two of the same book by the same user.
C29_IdempotentSeed ==
    /\ [][GuardedRun /\ CompletedLeavesABook]_vars
    /\ [](NoTwoSeededReviewsOfAPair)

\* a second run has returned at its guard after the admin deleted a book of
\* the first run: three reviews of one book are stored, by three users
C29_Witness ==
    /\ pc[1] = "done" /\ req[1].op = "seedDatabase" /\ resp[1].status = "Skipped"
    /\ \E b \in BookIds : ~books[b].isActive
    /\ \E b \in BookIds : Cardinality({r \in ReviewIds : reviews[r].bookId = b}) = 3

\* ---------------------------------------------------------------- C30
\* the sum of the five ratingDistribution counts of the client store
DistributionSum ==
    reviewStore.ratingDistribution[1] + reviewStore.ratingDistribution[2]
      + reviewStore.ratingDistribution[3] + reviewStore.ratingDistribution[4]
      + reviewStore.ratingDistribution[5]

\* C30: whenever no action of the review store is running, totalReviews is
\* the sum of the five ratingDistribution counts.
C30_CountMatchesDistribution ==
    reviewStore.call = NoCall => reviewStore.totalReviews = DistributionSum

====
